---- MODULE Spec2Model ----
(***************************************************************************)
(* The backtesting engine of tradewedge (backend/app/backtesting):         *)
(* BacktestEngine.run and its helpers as a state machine, the built-in      *)
(* strategies, an arbitrary user strategy, and the StrategyFactory.         *)
(*                                                                         *)
(* Numbers.  The engine computes with Python floats; the model computes     *)
(* the same expressions exactly, in fixed point.  Prices are integers in    *)
(* ticks of 1/Unit.price of a currency unit, and every amount of money      *)
(* (capital, entry_value, commission, pnl, equity) is an integer number of  *)
(* 1/MoneyScale of a currency unit, which makes every product with           *)
(* slippage_pct and commission_pct exact.  A percentage that the code        *)
(* obtains by a division (pnl_pct, return_pct, max_drawdown_pct) is kept as  *)
(* the exact fraction [num, den].  Float rounding is not modelled, except    *)
(* where it decides a branch: where the code tests a computed float for      *)
(* equality with 0 (_calculate_sharpe_ratio), and where a BUY's budget is a  *)
(* whole number of times the cost per share (_open_position); there the      *)
(* model admits every outcome that rounding can produce.                     *)
(***************************************************************************)
EXTENDS Integers, Sequences, FiniteSets, TLC

(* Optional values (Python None / a value). *)
None == <<>>
Some(v) == <<v>>
Val(o) == o[1]

(* Denominators of the fixed-point representation of the float fields:      *)
(* price ticks per currency unit, slippage_pct in halves, commission_pct in *)
(* thousandths, position_size_pct in halves, the z-score parameters of the  *)
(* strategies in halves.                                                    *)
Unit == [price |-> 2, slip |-> 2, pct |-> 1000, size |-> 2, z |-> 2]

MoneyScale == Unit.price * Unit.slip * Unit.pct

(* A currency amount, and a price in ticks, as money. *)
Money(units) == units * MoneyScale
PriceM(ticks) == ticks * Unit.slip * Unit.pct

(* Python int(a / b) for b > 0: truncation toward zero. *)
TruncDiv(a, b) == IF a >= 0 THEN a \div b ELSE -((-a) \div b)

(* The percentage n / d * 100, kept as the exact fraction of n by d. *)
Pct(n, d) == [num |-> n, den |-> d]

(***************************************************************************)
(* Bounds of the inputs.                                                   *)
(***************************************************************************)
MaxBars == 4

(* Close prices of the short series, in ticks: 50.0, 75.0 and 100.0. *)
Close == [lo |-> 100, mid |-> 150, hi |-> 200]

(***************************************************************************)
(* schemas.py                                                              *)
(***************************************************************************)
SignalType == {"buy", "sell", "hold"}

BacktestConfig(cap, comm, commPct, slip, slipPct, sizePct) ==
    [initial_capital |-> cap, commission |-> comm, commission_pct |-> commPct,
     slippage |-> slip, slippage_pct |-> slipPct, position_size_pct |-> sizePct]

(* The configurations engines are constructed with.  All satisfy the field  *)
(* constraints of BacktestConfig: initial_capital > 0, commission >= 0,      *)
(* 0 <= commission_pct <= 1, slippage >= 0, 0 <= slippage_pct <= 1,          *)
(* 0 < position_size_pct <= 1.                                               *)
Configs ==
    { BacktestConfig(10000, 0, 1, 0, 0, 2),    \* the defaults
      BacktestConfig(10000, 0, 0, 0, 0, 2),    \* commission_pct = 0
      BacktestConfig(1000, 0, 10, 0, 0, 2),    \* commission_pct = 0.01
      BacktestConfig(100, 0, 1, 0, 0, 2),      \* initial_capital = 100
      BacktestConfig(200, 100, 0, 0, 0, 2),    \* flat commission 100
      BacktestConfig(1000, 0, 0, 120, 0, 2),   \* flat slippage 60.0
      BacktestConfig(900, 0, 0, 0, 1, 2),      \* slippage_pct = 0.5
      BacktestConfig(1000, 0, 1, 0, 0, 1) }    \* position_size_pct = 0.5

ValidConfig(c) ==
    /\ c.initial_capital > 0
    /\ c.commission >= 0
    /\ c.commission_pct >= 0 /\ c.commission_pct <= Unit.pct
    /\ c.slippage >= 0
    /\ c.slippage_pct >= 0 /\ c.slippage_pct <= Unit.slip
    /\ c.position_size_pct > 0 /\ c.position_size_pct <= Unit.size

Position(date, price, qty, value, comm) ==
    [entry_date |-> date, entry_price |-> price, exit_date |-> None,
     exit_price |-> None, quantity |-> qty, side |-> "long", status |-> "open",
     entry_value |-> value, exit_value |-> None, pnl |-> None, pnl_pct |-> None,
     commission_paid |-> comm]

Signal(d, kind, p) == [date |-> d, signal |-> kind, price |-> p]

(***************************************************************************)
(* strategy.py                                                             *)
(***************************************************************************)
(* A price series: bars in ascending date order, one bar per day; only the  *)
(* index (date) and the Close column are read by the engine and by the      *)
(* strategies modelled here.                                                *)
Bar(d, c) == [date |-> d, Close |-> c]

BuyAndHold == [name |-> "BuyAndHold", kinds |-> <<>>]

(* Mutant: the closing SELL is taken from the first bar, not the last. *)
BuyAndHold_generate_signals_SellsFirstBar(df) ==
    IF df = <<>> THEN <<>>
    ELSE << Signal(df[1].date, "buy", df[1].Close),
            Signal(df[1].date, "sell", df[1].Close) >>

(* BuyAndHoldStrategy.generate_signals: BUY at the first bar, SELL at the   *)
(* last bar (the same bar when the series has one bar).                     *)
BuyAndHold_generate_signals(df) ==
    IF df = <<>> THEN <<>>
    ELSE << Signal(df[1].date, "buy", df[1].Close),
            Signal(df[Len(df)].date, "sell", df[Len(df)].Close) >>

(* Any other subclass of BaseStrategy: here one that emits, for every bar,  *)
(* one signal of a kind of its choosing at the bar's date and close.        *)
Custom(kinds) == [name |-> "Custom", kinds |-> kinds]

Custom_generate_signals(strategy, df) ==
    [i \in 1..Len(df) |-> Signal(df[i].date, strategy.kinds[i], df[i].Close)]

(* The indicator strategies.  Their float parameters std_dev,                *)
(* entry_threshold and exit_threshold are in halves (Unit.z).  The           *)
(* indicators are compared exactly, as fractions of integers; the closes of  *)
(* the model are multiples of 0.5, for which pandas' rolling sums are exact. *)
SMACrossover(fast, slow) ==
    [name |-> "SMACrossover", fast_period |-> fast, slow_period |-> slow]
RSI(p, lo, hi) == [name |-> "RSI", period |-> p, oversold |-> lo, overbought |-> hi]
MACD(fast, slow, sig) ==
    [name |-> "MACD", fast_period |-> fast, slow_period |-> slow,
     signal_period |-> sig]
BollingerBands(p, k) == [name |-> "BollingerBands", period |-> p, std_dev |-> k]
MeanReversion(p, entry, exit) ==
    [name |-> "MeanReversion", period |-> p, entry_threshold |-> entry,
     exit_threshold |-> exit]

RECURSIVE SumTo(_, _)
SumTo(f, n) == IF n = 0 THEN 0 ELSE f[n] + SumTo(f, n - 1)

RECURSIVE Pow(_, _)
Pow(b, e) == IF e = 0 THEN 1 ELSE b * Pow(b, e - 1)

Sgn(x) == IF x > 0 THEN 1 ELSE IF x < 0 THEN -1 ELSE 0

(* df["Close"].rolling(n) at row i (i >= n): the sum and the sum of squares  *)
(* of the window; the mean is RollSum / n.                                   *)
RollSum(df, i, n) == SumTo([k \in 1..n |-> df[i - n + k].Close], n)
RollSumSq(df, i, n) ==
    SumTo([k \in 1..n |-> df[i - n + k].Close * df[i - n + k].Close], n)

(* rolling(n).std() at row i is sqrt(RollVar / (n * (n - 1))): undefined     *)
(* (NaN) for n = 1, zero when the window is flat.                            *)
RollVar(df, i, n) == n * RollSumSq(df, i, n) - RollSum(df, i, n) * RollSum(df, i, n)

(* The rows dropna() keeps, as indices into df, in order: those at which    *)
(* every indicator column is defined.                                        *)
RowsFrom(df, defined) ==
    SelectSeq([i \in 1..Len(df) |-> i], LAMBDA i : i \in defined)

(* Mutant: the scan loop does not look at the position it tracks. *)
RECURSIVE ScanLoop_IgnoresPosition(_, _, _, _, _, _)
ScanLoop_IgnoresPosition(df, rows, buy, sell, k, position) ==
    IF k > Len(rows) THEN [signals |-> <<>>, position |-> position]
    ELSE
      LET bar == df[rows[k]]
          kind == IF buy[k] THEN "buy" ELSE IF sell[k] THEN "sell" ELSE "none"
          rest == ScanLoop_IgnoresPosition(df, rows, buy, sell, k + 1,
                           IF kind = "buy" THEN Some("long")
                           ELSE IF kind = "sell" THEN None ELSE position)
      IN  IF kind = "none" THEN rest
          ELSE [signals |-> <<Signal(bar.date, kind, bar.Close)>> \o rest.signals,
                position |-> rest.position]

(* The scan loop the five indicator strategies share, from the k-th kept row *)
(* on: a BUY when the buy condition holds and position is None, else a SELL  *)
(* when the sell condition holds and position is "long".  Returns the        *)
(* signals and the position the loop ends with.                              *)
RECURSIVE ScanLoop(_, _, _, _, _, _)
ScanLoop(df, rows, buy, sell, k, position) ==
    IF k > Len(rows) THEN [signals |-> <<>>, position |-> position]
    ELSE
      LET bar == df[rows[k]]
          kind == IF buy[k] /\ position = None THEN "buy"
                  ELSE IF sell[k] /\ position = Some("long") THEN "sell"
                  ELSE "none"
          rest == ScanLoop(df, rows, buy, sell, k + 1,
                           IF kind = "buy" THEN Some("long")
                           ELSE IF kind = "sell" THEN None ELSE position)
      IN  IF kind = "none" THEN rest
          ELSE [signals |-> <<Signal(bar.date, kind, bar.Close)>> \o rest.signals,
                position |-> rest.position]

(* "Close any open position at the end": df_copy.index[-1] and               *)
(* df_copy.iloc[-1]["Close"] are the last row dropna() kept.                 *)
CloseAtEnd(df, rows, loop) ==
    IF loop.position = Some("long")
    THEN Append(loop.signals,
                Signal(df[rows[Len(rows)]].date, "sell", df[rows[Len(rows)]].Close))
    ELSE loop.signals

(* Mutant: every strategy asks for slow_period or period bars only. *)
MinBars_PeriodOnly(strategy) ==
    IF strategy.name \in {"SMACrossover", "MACD"} THEN strategy.slow_period
    ELSE strategy.period

(* The length below which generate_signals returns [] at once. *)
MinBars(strategy) ==
    IF strategy.name = "SMACrossover" THEN strategy.slow_period
    ELSE IF strategy.name = "RSI" THEN strategy.period + 1
    ELSE IF strategy.name = "MACD" THEN strategy.slow_period + strategy.signal_period
    ELSE strategy.period

(* SMACrossoverStrategy: both rolling means are defined from row            *)
(* max(fast_period, slow_period) on; the loop starts at the second kept row. *)
SMACrossover_scan(s, df) ==
    LET first == IF s.fast_period > s.slow_period THEN s.fast_period
                 ELSE s.slow_period
        rows == RowsFrom(df, {i \in first..Len(df) : TRUE})
        \* sign of SMA_fast - SMA_slow at row i
        Diff(i) == Sgn(RollSum(df, i, s.fast_period) * s.slow_period
                       - RollSum(df, i, s.slow_period) * s.fast_period)
        buy == [k \in 1..Len(rows) |->
                   k > 1 /\ Diff(rows[k - 1]) <= 0 /\ Diff(rows[k]) > 0]
        sell == [k \in 1..Len(rows) |->
                   k > 1 /\ Diff(rows[k - 1]) >= 0 /\ Diff(rows[k]) < 0]
    IN  [rows |-> rows, loop |-> ScanLoop(df, rows, buy, sell, 1, None)]

(* RSIStrategy.  delta = Close.diff() is NaN at the first row, where both    *)
(* where(delta > 0, 0) and where(delta < 0, 0) give 0.  With g and l the     *)
(* window sums of the gains and of the losses, rs = g / l and                *)
(* RSI = 100 - 100 / (1 + rs) = 100 * g / (g + l): 100 when l = 0 < g, and   *)
(* NaN (0 / 0) when g = l = 0, a row dropna() removes.                       *)
Delta(df, j) == IF j = 1 THEN 0 ELSE df[j].Close - df[j - 1].Close

RSI_scan(s, df) ==
    LET n == s.period
        Gain(i) == SumTo([k \in 1..n |-> IF Delta(df, i - n + k) > 0
                                         THEN Delta(df, i - n + k) ELSE 0], n)
        Loss(i) == SumTo([k \in 1..n |-> IF Delta(df, i - n + k) < 0
                                         THEN -Delta(df, i - n + k) ELSE 0], n)
        rows == RowsFrom(df, {i \in n..Len(df) : Gain(i) + Loss(i) > 0})
        \* sign of RSI - threshold at row i
        Cmp(i, threshold) ==
            Sgn(100 * Gain(i) - threshold * (Gain(i) + Loss(i)))
        buy == [k \in 1..Len(rows) |->
                   k > 1 /\ Cmp(rows[k - 1], s.oversold) >= 0
                         /\ Cmp(rows[k], s.oversold) < 0]
        sell == [k \in 1..Len(rows) |->
                   k > 1 /\ Cmp(rows[k - 1], s.overbought) <= 0
                         /\ Cmp(rows[k], s.overbought) > 0]
    IN  [rows |-> rows, loop |-> ScanLoop(df, rows, buy, sell, 1, None)]

(* Close.ewm(span, adjust=False).mean() at row t, times (span + 1)^(t - 1):  *)
(* y_1 = x_1, y_t = (1 - a) * y_(t-1) + a * x_t with a = 2 / (span + 1).      *)
RECURSIVE Ewm(_, _, _)
Ewm(df, span, t) ==
    IF t = 1 THEN df[1].Close
    ELSE (span - 1) * Ewm(df, span, t - 1) + 2 * df[t].Close * Pow(span + 1, t - 2)

(* MACD = ema_fast - ema_slow at row t, times                                *)
(* ((fast + 1) * (slow + 1))^(t - 1).                                        *)
MACDLine(s, df, t) ==
    Ewm(df, s.fast_period, t) * Pow(s.slow_period + 1, t - 1)
        - Ewm(df, s.slow_period, t) * Pow(s.fast_period + 1, t - 1)

(* Signal = MACD.ewm(signal_period, adjust=False).mean() at row t, times     *)
(* ((fast + 1) * (slow + 1) * (signal + 1))^(t - 1).                         *)
RECURSIVE SignalLine(_, _, _)
SignalLine(s, df, t) ==
    IF t = 1 THEN MACDLine(s, df, 1)
    ELSE (s.signal_period - 1) * (s.fast_period + 1) * (s.slow_period + 1)
             * SignalLine(s, df, t - 1)
         + 2 * Pow(s.signal_period + 1, t - 2) * MACDLine(s, df, t)

(* MACDStrategy: no row is NaN; the loop starts at the second row.  (Where   *)
(* MACD and Signal are equal as fractions the rounding of the floats         *)
(* decides the comparison; the short-period MACD instances of the model      *)
(* have smoothing factors 1 and 1/2, which are exact in floats.)             *)
MACD_scan(s, df) ==
    LET rows == RowsFrom(df, {i \in 1..Len(df) : TRUE})
        \* sign of MACD - Signal at row t
        Diff(t) == Sgn(MACDLine(s, df, t) * Pow(s.signal_period + 1, t - 1)
                       - SignalLine(s, df, t))
        buy == [k \in 1..Len(rows) |->
                   k > 1 /\ Diff(rows[k - 1]) <= 0 /\ Diff(rows[k]) > 0]
        sell == [k \in 1..Len(rows) |->
                   k > 1 /\ Diff(rows[k - 1]) >= 0 /\ Diff(rows[k]) < 0]
    IN  [rows |-> rows, loop |-> ScanLoop(df, rows, buy, sell, 1, None)]

(* BollingerBandsStrategy: Upper / Lower = SMA +- STD * std_dev.  With        *)
(* e = n * Close - RollSum (n times the distance of the close from the mean) *)
(* Close >= Upper iff e >= 0 /\ e^2 * (n - 1) >= std_dev^2 * n * RollVar,    *)
(* and Close <= Lower the same with -e.  STD is NaN at every row when        *)
(* period = 1.  The loop starts at the first kept row.                       *)
BeyondBand(e, n, var, k) ==
    e >= 0 /\ e * e * (n - 1) * Unit.z * Unit.z >= k * k * n * var

BollingerBands_scan(s, df) ==
    LET n == s.period
        rows == RowsFrom(df, {i \in n..Len(df) : n > 1})
        E(i) == n * df[i].Close - RollSum(df, i, n)
        buy == [k \in 1..Len(rows) |->
                   BeyondBand(-E(rows[k]), n, RollVar(df, rows[k], n), s.std_dev)]
        sell == [k \in 1..Len(rows) |->
                   BeyondBand(E(rows[k]), n, RollVar(df, rows[k], n), s.std_dev)]
    IN  [rows |-> rows, loop |-> ScanLoop(df, rows, buy, sell, 1, None)]

(* The sign of ZScore - threshold, where ZScore = (Close - SMA) / STD has    *)
(* the sign of e and the square e^2 * (n - 1) / (n * RollVar).               *)
ZCmp(e, n, var, threshold) ==
    LET z2 == e * e * (n - 1) * Unit.z * Unit.z
        t2 == threshold * threshold * n * var
    IN  IF e >= 0 /\ threshold >= 0 THEN Sgn(z2 - t2)
        ELSE IF e < 0 /\ threshold < 0 THEN Sgn(t2 - z2)
        ELSE IF e >= 0 THEN 1 ELSE -1

(* MeanReversionStrategy: ZScore is NaN (0 / 0) where the window is flat and *)
(* at every row when period = 1; dropna() removes those rows.  The loop      *)
(* starts at the first kept row.                                             *)
MeanReversion_scan(s, df) ==
    LET n == s.period
        rows == RowsFrom(df, {i \in n..Len(df) : n > 1 /\ RollVar(df, i, n) > 0})
        Z(i, threshold) ==
            ZCmp(n * df[i].Close - RollSum(df, i, n), n, RollVar(df, i, n), threshold)
        buy == [k \in 1..Len(rows) |-> Z(rows[k], s.entry_threshold) <= 0]
        sell == [k \in 1..Len(rows) |-> Z(rows[k], s.exit_threshold) >= 0]
    IN  [rows |-> rows, loop |-> ScanLoop(df, rows, buy, sell, 1, None)]

(* The scan of an indicator strategy over df: the rows kept and the loop's   *)
(* outcome.                                                                  *)
Scan(strategy, df) ==
    IF strategy.name = "SMACrossover" THEN SMACrossover_scan(strategy, df)
    ELSE IF strategy.name = "RSI" THEN RSI_scan(strategy, df)
    ELSE IF strategy.name = "MACD" THEN MACD_scan(strategy, df)
    ELSE IF strategy.name = "BollingerBands" THEN BollingerBands_scan(strategy, df)
    ELSE MeanReversion_scan(strategy, df)

(* generate_signals of the five indicator strategies. *)
Indicator_generate_signals(strategy, df) ==
    IF df = <<>> \/ Len(df) < MinBars(strategy) THEN <<>>
    ELSE CloseAtEnd(df, Scan(strategy, df).rows, Scan(strategy, df).loop)

BuiltIn == {"BuyAndHold", "SMACrossover", "RSI", "MACD", "BollingerBands",
            "MeanReversion"}

generate_signals(strategy, df) ==
    IF strategy.name = "BuyAndHold" THEN BuyAndHold_generate_signals(df)
    ELSE IF strategy.name \in BuiltIn THEN Indicator_generate_signals(strategy, df)
    ELSE Custom_generate_signals(strategy, df)

(***************************************************************************)
(* factory.py.  A strategy name is a string: a sequence of characters.      *)
(***************************************************************************)
Letters == <<"a", "b", "c", "d", "e", "f", "g", "h", "i", "j", "k", "l", "m", "n", "o", "p", "q", "r", "s", "t", "u", "v", "w", "x", "y", "z">>
Capitals == <<"A", "B", "C", "D", "E", "F", "G", "H", "I", "J", "K", "L", "M", "N", "O", "P", "Q", "R", "S", "T", "U", "V", "W", "X", "Y", "Z">>

(* str.lower() and str.upper(), character by character. *)
LowerChar(c) ==
    IF \E i \in 1..Len(Capitals) : Capitals[i] = c
    THEN Letters[CHOOSE i \in 1..Len(Capitals) : Capitals[i] = c] ELSE c
UpperChar(c) ==
    IF \E i \in 1..Len(Letters) : Letters[i] = c
    THEN Capitals[CHOOSE i \in 1..Len(Letters) : Letters[i] = c] ELSE c

lower(name) == [i \in 1..Len(name) |-> LowerChar(name[i])]
upper(name) == [i \in 1..Len(name) |-> UpperChar(name[i])]
capitalize(name) ==
    [i \in 1..Len(name) |-> IF i = 1 THEN UpperChar(name[i]) ELSE LowerChar(name[i])]

n_buy_hold == <<"b", "u", "y", "_", "h", "o", "l", "d">>
n_buy_and_hold == <<"b", "u", "y", "_", "a", "n", "d", "_", "h", "o", "l", "d">>
n_sma_crossover == <<"s", "m", "a", "_", "c", "r", "o", "s", "s", "o", "v", "e", "r">>
n_sma_cross == <<"s", "m", "a", "_", "c", "r", "o", "s", "s">>
n_rsi == <<"r", "s", "i">>
n_macd == <<"m", "a", "c", "d">>
n_bollinger_bands == <<"b", "o", "l", "l", "i", "n", "g", "e", "r", "_", "b", "a", "n", "d", "s">>
n_mean_reversion == <<"m", "e", "a", "n", "_", "r", "e", "v", "e", "r", "s", "i", "o", "n">>
n_unknown == <<"u", "n", "k", "n", "o", "w", "n">>
n_invalid_strategy == <<"i", "n", "v", "a", "l", "i", "d", "_", "s", "t", "r", "a", "t", "e", "g", "y">>

(* StrategyFactory._strategies, in the order of the dict literal. *)
strategies ==
    << <<n_buy_hold, "BuyAndHoldStrategy">>,
       <<n_buy_and_hold, "BuyAndHoldStrategy">>,
       <<n_sma_crossover, "SMACrossoverStrategy">>,
       <<n_sma_cross, "SMACrossoverStrategy">> >>

Registered(name) == \E i \in 1..Len(strategies) : strategies[i][1] = name
ClassOf(name) == strategies[CHOOSE i \in 1..Len(strategies) : strategies[i][1] = name][2]

(* The keyword parameters of each class's __init__ with their defaults     *)
(* (std_dev, entry_threshold and exit_threshold in halves).                *)
NoParams == [k \in {} |-> 0]

Defaults(class) ==
    CASE class = "BuyAndHoldStrategy" -> NoParams
      [] class = "SMACrossoverStrategy" -> [fast_period |-> 20, slow_period |-> 50]
      [] class = "RSIStrategy" -> [period |-> 14, oversold |-> 30, overbought |-> 70]
      [] class = "MACDStrategy" ->
             [fast_period |-> 12, slow_period |-> 26, signal_period |-> 9]
      [] class = "BollingerBandsStrategy" -> [period |-> 20, std_dev |-> 4]
      [] class = "MeanReversionStrategy" ->
             [period |-> 20, entry_threshold |-> -4, exit_threshold |-> 0]

(* strategy_class with params as keywords: a TypeError for a keyword        *)
(* __init__ does not have, else the instance with the given parameters and   *)
(* the defaults of the others.                                               *)
New(class, params) ==
    LET d == Defaults(class)
        P(k) == IF k \in DOMAIN params THEN params[k] ELSE d[k]
    IN  IF ~(DOMAIN params \subseteq DOMAIN d)
        THEN [raised |-> Some("TypeError"), instance |-> None]
        ELSE [raised |-> None,
              instance |-> Some(
                CASE class = "BuyAndHoldStrategy" -> BuyAndHold
                  [] class = "SMACrossoverStrategy" ->
                         SMACrossover(P("fast_period"), P("slow_period"))
                  [] class = "RSIStrategy" ->
                         RSI(P("period"), P("oversold"), P("overbought"))
                  [] class = "MACDStrategy" ->
                         MACD(P("fast_period"), P("slow_period"), P("signal_period"))
                  [] class = "BollingerBandsStrategy" ->
                         BollingerBands(P("period"), P("std_dev"))
                  [] class = "MeanReversionStrategy" ->
                         MeanReversion(P("period"), P("entry_threshold"),
                                       P("exit_threshold")))]

(* Mutant: the TypeError of the constructor is not caught. *)
create_TypeErrorEscapes(name, params) ==
    IF ~Registered(lower(name)) THEN [raised |-> Some("ValueError"), instance |-> None]
    ELSE New(ClassOf(lower(name)), IF params = None THEN NoParams ELSE Val(params))

(* StrategyFactory.create: params is None or a dict. *)
create(name, params) ==
    LET name_lower == lower(name)
    IN  IF ~Registered(name_lower)
        THEN [raised |-> Some("ValueError"), instance |-> None]
        ELSE LET made == New(ClassOf(name_lower),
                             IF params = None \/ Val(params) = NoParams
                             THEN NoParams ELSE Val(params))
             IN  IF made.raised = Some("TypeError")
                 THEN [raised |-> Some("ValueError"), instance |-> None]
                 ELSE made

(* StrategyFactory.list_strategies: the first name of every class, with the  *)
(* class and, for every parameter, its default and whether it is required.   *)
list_strategies ==
    LET First(i) == \A j \in 1..(i - 1) : strategies[j][2] # strategies[i][2]
        kept == SelectSeq([i \in 1..Len(strategies) |-> i], First)
    IN  [k \in 1..Len(kept) |->
            [name |-> strategies[kept[k]][1],
             class |-> strategies[kept[k]][2],
             params |-> [q \in DOMAIN Defaults(strategies[kept[k]][2]) |->
                            [default |-> Defaults(strategies[kept[k]][2])[q],
                             required |-> FALSE]]]]

(***************************************************************************)
(* engine.py: the simulator.  eng is the engine's mutable state             *)
(* [capital, positions, equity_curve, current_position].                    *)
(***************************************************************************)
FreshState(cfg) ==
    [capital |-> Money(cfg.initial_capital), positions |-> <<>>,
     equity_curve |-> <<>>, current_position |-> None]

(* signal.price * (1 + slippage_pct) + slippage *)
EntryPrice(cfg, price) ==
    PriceM(price) + (PriceM(price) \div Unit.slip) * cfg.slippage_pct
        + PriceM(cfg.slippage)

(* Mutant: the slippage raises the exit price. *)
ExitPrice_SlippageAdded(cfg, price) ==
    PriceM(price) + (PriceM(price) \div Unit.slip) * cfg.slippage_pct
        + PriceM(cfg.slippage)

(* signal.price * (1 - slippage_pct) - slippage *)
ExitPrice(cfg, price) ==
    PriceM(price) - (PriceM(price) \div Unit.slip) * cfg.slippage_pct
        - PriceM(cfg.slippage)

(* Mutant: the proportional commission is never charged. *)
MulCommissionPct_NotCharged(cfg, value) == 0

(* value * commission_pct *)
MulCommissionPct(cfg, value) == (value \div Unit.pct) * cfg.commission_pct

(* Mutant: the position is sized from initial_capital, not from the current  *)
(* capital.                                                                  *)
Quantity_FromInitialCapital(cfg, capital, price) ==
    LET entry_price == EntryPrice(cfg, price)
        cost_per_share == entry_price + MulCommissionPct(cfg, entry_price)
    IN  TruncDiv(Money(cfg.initial_capital) * cfg.position_size_pct
                     - Money(cfg.commission) * Unit.size,
                 cost_per_share * Unit.size)

(* int((capital * position_size_pct - commission) / cost_per_share) *)
Quantity(cfg, capital, price) ==
    LET entry_price == EntryPrice(cfg, price)
        cost_per_share == entry_price + MulCommissionPct(cfg, entry_price)
    IN  TruncDiv(capital * cfg.position_size_pct - Money(cfg.commission) * Unit.size,
                 cost_per_share * Unit.size)

(* Mutant: the quantity check is "quantity < 0", so a zero quantity opens a   *)
(* position.                                                                 *)
open_position_AcceptsZeroQuantity(eng, cfg, sig) ==
    IF eng.current_position # None THEN eng
    ELSE
      LET entry_price == EntryPrice(cfg, sig.price)
          quantity == Quantity(cfg, eng.capital, sig.price)
          entry_value == quantity * entry_price
          commission == Money(cfg.commission) + MulCommissionPct(cfg, entry_value)
          total_cost == entry_value + commission
      IN  IF quantity < 0 THEN eng
          ELSE IF total_cost > eng.capital THEN eng
          ELSE [eng EXCEPT
                  !.capital = @ - total_cost,
                  !.current_position =
                      Some(Position(sig.date, entry_price, quantity,
                                    entry_value, commission))]

(* Mutant: a BUY is executed whether or not a position is open. *)
open_position_Replaces(eng, cfg, sig) ==
    LET entry_price == EntryPrice(cfg, sig.price)
        quantity == Quantity(cfg, eng.capital, sig.price)
        entry_value == quantity * entry_price
        commission == Money(cfg.commission) + MulCommissionPct(cfg, entry_value)
        total_cost == entry_value + commission
    IN  IF quantity <= 0 THEN eng
        ELSE IF total_cost > eng.capital THEN eng
        ELSE [eng EXCEPT
                !.capital = @ - total_cost,
                !.current_position =
                    Some(Position(sig.date, entry_price, quantity,
                                  entry_value, commission))]

(* Mutant: the entry commission is recorded in the position and not deducted  *)
(* from capital.                                                             *)
open_position_CommissionNotDeducted(eng, cfg, sig) ==
    IF eng.current_position # None THEN eng
    ELSE
      LET entry_price == EntryPrice(cfg, sig.price)
          quantity == Quantity(cfg, eng.capital, sig.price)
          entry_value == quantity * entry_price
          commission == Money(cfg.commission) + MulCommissionPct(cfg, entry_value)
          total_cost == entry_value + commission
      IN  IF quantity <= 0 THEN eng
          ELSE IF total_cost > eng.capital THEN eng
          ELSE [eng EXCEPT
                  !.capital = @ - entry_value,
                  !.current_position =
                      Some(Position(sig.date, entry_price, quantity,
                                    entry_value, commission))]

(* Mutant: the position is appended to self.positions when it is opened. *)
open_position_ListsOpen(eng, cfg, sig) ==
    IF eng.current_position # None THEN eng
    ELSE
      LET entry_price == EntryPrice(cfg, sig.price)
          quantity == Quantity(cfg, eng.capital, sig.price)
          entry_value == quantity * entry_price
          commission == Money(cfg.commission) + MulCommissionPct(cfg, entry_value)
          total_cost == entry_value + commission
      IN  IF quantity <= 0 THEN eng
          ELSE IF total_cost > eng.capital THEN eng
          ELSE [eng EXCEPT
                  !.capital = @ - total_cost,
                  !.positions =
                      Append(@, Position(sig.date, entry_price, quantity,
                                         entry_value, commission)),
                  !.current_position =
                      Some(Position(sig.date, entry_price, quantity,
                                    entry_value, commission))]

open_position(eng, cfg, sig) ==
    IF eng.current_position # None THEN eng
    ELSE
      LET entry_price == EntryPrice(cfg, sig.price)
          quantity == Quantity(cfg, eng.capital, sig.price)
          entry_value == quantity * entry_price
          commission == Money(cfg.commission) + MulCommissionPct(cfg, entry_value)
          total_cost == entry_value + commission
      IN  IF quantity <= 0 THEN eng
          ELSE IF total_cost > eng.capital THEN eng
          ELSE [eng EXCEPT
                  !.capital = @ - total_cost,
                  !.current_position =
                      Some(Position(sig.date, entry_price, quantity,
                                    entry_value, commission))]

(* Mutant: the closed position is appended but stays the current position. *)
close_position_KeepsCurrent(eng, cfg, sig) ==
    IF eng.current_position = None THEN eng
    ELSE
      LET pos == Val(eng.current_position)
          exit_price == ExitPrice(cfg, sig.price)
          exit_value == pos.quantity * exit_price
          exit_commission == Money(cfg.commission) + MulCommissionPct(cfg, exit_value)
          total_commission == pos.commission_paid + exit_commission
          pnl == exit_value - pos.entry_value - total_commission
          closed == [pos EXCEPT
                       !.exit_date = Some(sig.date),
                       !.exit_price = Some(exit_price),
                       !.exit_value = Some(exit_value),
                       !.pnl = Some(pnl),
                       !.pnl_pct = Some(Pct(pnl, pos.entry_value)),
                       !.status = "closed",
                       !.commission_paid = total_commission]
      IN  [eng EXCEPT
             !.capital = @ + exit_value - exit_commission,
             !.positions = Append(@, closed),
             !.current_position = Some(closed)]

(* Mutant: the exit commission is credited instead of charged. *)
close_position_AddsCommission(eng, cfg, sig) ==
    IF eng.current_position = None THEN eng
    ELSE
      LET pos == Val(eng.current_position)
          exit_price == ExitPrice(cfg, sig.price)
          exit_value == pos.quantity * exit_price
          exit_commission == Money(cfg.commission) + MulCommissionPct(cfg, exit_value)
          total_commission == pos.commission_paid + exit_commission
          pnl == exit_value - pos.entry_value - total_commission
          closed == [pos EXCEPT
                       !.exit_date = Some(sig.date),
                       !.exit_price = Some(exit_price),
                       !.exit_value = Some(exit_value),
                       !.pnl = Some(pnl),
                       !.pnl_pct = Some(Pct(pnl, pos.entry_value)),
                       !.status = "closed",
                       !.commission_paid = total_commission]
      IN  [eng EXCEPT
             !.capital = @ + exit_value + exit_commission,
             !.positions = Append(@, closed),
             !.current_position = None]

close_position(eng, cfg, sig) ==
    IF eng.current_position = None THEN eng
    ELSE
      LET pos == Val(eng.current_position)
          exit_price == ExitPrice(cfg, sig.price)
          exit_value == pos.quantity * exit_price
          exit_commission == Money(cfg.commission) + MulCommissionPct(cfg, exit_value)
          total_commission == pos.commission_paid + exit_commission
          pnl == exit_value - pos.entry_value - total_commission
          closed == [pos EXCEPT
                       !.exit_date = Some(sig.date),
                       !.exit_price = Some(exit_price),
                       !.exit_value = Some(exit_value),
                       !.pnl = Some(pnl),
                       !.pnl_pct = Some(Pct(pnl, pos.entry_value)),
                       !.status = "closed",
                       !.commission_paid = total_commission]
      IN  [eng EXCEPT
             !.capital = @ + exit_value - exit_commission,
             !.positions = Append(@, closed),
             !.current_position = None]

(* date.strftime("%Y-%m-%dT%H:%M:%S"): the text of a date, not a date. *)
strftime(date) == <<"iso", date>>

update_equity_curve(eng, cfg, date, price) ==
    LET portfolio_value ==
            IF eng.current_position # None
            THEN eng.capital + Val(eng.current_position).quantity * PriceM(price)
            ELSE eng.capital
        initial == Money(cfg.initial_capital)
    IN  [eng EXCEPT !.equity_curve =
            Append(@, [date |-> strftime(date),
                       equity |-> portfolio_value,
                       cash |-> eng.capital,
                       return |-> portfolio_value - initial,
                       return_pct |-> Pct(portfolio_value - initial, initial)])]

(* Mutant: a HOLD appends no equity point. *)
execute_signal_SkipsHold(eng, cfg, sig) ==
    IF sig.signal = "buy"
    THEN update_equity_curve(open_position(eng, cfg, sig), cfg, sig.date, sig.price)
    ELSE IF sig.signal = "sell"
    THEN update_equity_curve(close_position(eng, cfg, sig), cfg, sig.date, sig.price)
    ELSE eng

execute_signal(eng, cfg, sig) ==
    LET after == IF sig.signal = "buy" THEN open_position(eng, cfg, sig)
                 ELSE IF sig.signal = "sell" THEN close_position(eng, cfg, sig)
                 ELSE eng
    IN  update_equity_curve(after, cfg, sig.date, sig.price)

(* The floats of a run are exact when commission_pct is a multiple of 1/8:    *)
(* then every operand (prices in half units, slippage_pct in halves, whole    *)
(* amounts of initial capital and flat costs) is a binary fraction and no      *)
(* product or sum of the run is rounded.  Otherwise cost_per_share,           *)
(* commission and with them capital are rounded floats.                       *)
FloatsExact(cfg) == cfg.commission_pct % (Unit.pct \div 8) = 0

(* A BUY while flat whose budget available_capital - commission is, in exact  *)
(* arithmetic, a positive whole number of times cost_per_share, computed with  *)
(* rounded floats: whether int(...) yields that number or one less, and        *)
(* whether total_cost > self.capital holds when the cost is the whole          *)
(* capital, is decided by the rounding.                                       *)
RoundingDecidesBuy(eng, cfg, sig) ==
    /\ sig.signal = "buy" /\ eng.current_position = None
    /\ ~FloatsExact(cfg)
    /\ LET entry_price == EntryPrice(cfg, sig.price)
           cost_per_share == entry_price + MulCommissionPct(cfg, entry_price)
           quantity == Quantity(cfg, eng.capital, sig.price)
       IN  /\ quantity > 0
           /\ quantity * cost_per_share * Unit.size
                  = eng.capital * cfg.position_size_pct
                        - Money(cfg.commission) * Unit.size

(* _open_position from "if quantity <= 0" on, for a given quantity whose cost *)
(* is within capital.                                                        *)
Fill(eng, cfg, sig, quantity) ==
    LET entry_price == EntryPrice(cfg, sig.price)
        entry_value == quantity * entry_price
        commission == Money(cfg.commission) + MulCommissionPct(cfg, entry_value)
    IN  IF quantity <= 0 THEN eng
        ELSE [eng EXCEPT
                !.capital = @ - (entry_value + commission),
                !.current_position =
                    Some(Position(sig.date, entry_price, quantity,
                                  entry_value, commission))]

(* The states _open_position can leave where rounding decides, besides that   *)
(* of the exact computation: the quantity is one less; and, when the cost is   *)
(* the whole capital (position_size_pct = 1.0), total_cost > self.capital      *)
(* holds and the BUY is dropped.                                              *)
RoundedBuys(eng, cfg, sig) ==
    IF RoundingDecidesBuy(eng, cfg, sig)
    THEN {Fill(eng, cfg, sig, Quantity(cfg, eng.capital, sig.price) - 1)}
             \cup (IF cfg.position_size_pct = Unit.size THEN {eng} ELSE {})
    ELSE {}

(* The states _execute_signal can leave. *)
Executions(eng, cfg, sig) ==
    {execute_signal(eng, cfg, sig)}
        \cup {update_equity_curve(after, cfg, sig.date, sig.price) :
                  after \in RoundedBuys(eng, cfg, sig)}

(***************************************************************************)
(* engine.py: the performance metrics.                                     *)
(***************************************************************************)
RECURSIVE SumSeq(_)
SumSeq(xs) == IF xs = <<>> THEN 0 ELSE xs[1] + SumSeq(Tail(xs))

(* Mutant: the peak stays the first value. *)
RECURSIVE DrawdownPass_FixedPeak(_, _, _, _, _)
DrawdownPass_FixedPeak(values, i, peak, max_dd, max_dd_pct) ==
    IF i > Len(values) THEN <<max_dd, max_dd_pct>>
    ELSE
      LET value == values[i]
          dd == peak - value
          dd_pct == IF peak > 0 THEN Pct(dd, peak) ELSE Pct(0, 1)
      IN  IF dd > max_dd
          THEN DrawdownPass_FixedPeak(values, i + 1, peak, dd, dd_pct)
          ELSE DrawdownPass_FixedPeak(values, i + 1, peak, max_dd, max_dd_pct)

(* The forward pass of _calculate_max_drawdown from the i-th value on. *)
RECURSIVE DrawdownPass(_, _, _, _, _)
DrawdownPass(values, i, peak, max_dd, max_dd_pct) ==
    IF i > Len(values) THEN <<max_dd, max_dd_pct>>
    ELSE
      LET value == values[i]
          peak2 == IF value > peak THEN value ELSE peak
          dd == peak2 - value
          dd_pct == IF peak2 > 0 THEN Pct(dd, peak2) ELSE Pct(0, 1)
      IN  IF dd > max_dd
          THEN DrawdownPass(values, i + 1, peak2, dd, dd_pct)
          ELSE DrawdownPass(values, i + 1, peak2, max_dd, max_dd_pct)

(* Mutant: the drawdown is the fall from the first value to the last. *)
calculate_max_drawdown_FirstToLast(equity_values) ==
    IF equity_values = <<>> THEN <<0, Pct(0, 1)>>
    ELSE LET dd == equity_values[1] - equity_values[Len(equity_values)]
         IN  <<dd, Pct(dd, equity_values[1])>>

calculate_max_drawdown(equity_values) ==
    IF equity_values = <<>> THEN <<0, Pct(0, 1)>>
    ELSE DrawdownPass(equity_values, 1, equity_values[1], 0, Pct(0, 1))

AllEqual(returns) == \A i \in 1..Len(returns) : returns[i] = returns[1]

(* excess_returns.std() == 0 is a comparison of floats.  numpy computes      *)
(* std as sqrt(mean(|x - x.mean()|^2)), with x.mean() = sum(x) / n.  For      *)
(* returns that are not all equal the result is > 0.  For n equal values v   *)
(* it is 0 exactly when the float sum(x) / n is v again: always for n = 2     *)
(* (v + v is exact) and for v = 0, but for n >= 3 only if v + v + ... does    *)
(* not round; e.g. three times -0.95 sum to -2.8499999999999996, the mean is *)
(* -0.9499999999999998 and std() is 1.1102230246251565e-16.  The fixed-point *)
(* values of the model do not determine that rounding: RoundingDecides tells *)
(* where it matters, and mean_exact is its outcome.                          *)
RoundingDecides(returns) ==
    Len(returns) >= 3 /\ AllEqual(returns) /\ returns[1].num # 0

StdIsZero(returns, mean_exact) ==
    AllEqual(returns) /\ (RoundingDecides(returns) => mean_exact)

(* The Sharpe ratio is a quotient of a mean by a standard deviation: the     *)
(* model keeps whether it is null and, when it is not, the sign of the mean  *)
(* (the returns all have the denominator initial_capital).             *)
calculate_sharpe_ratio(returns, mean_exact) ==
    IF Len(returns) < 2 THEN None
    ELSE IF StdIsZero(returns, mean_exact) THEN None
    ELSE LET total == SumSeq([i \in 1..Len(returns) |-> returns[i].num])
         IN  Some(IF total > 0 THEN 1 ELSE IF total < 0 THEN -1 ELSE 0)

(* (df.index[-1] - df.index[0]).days *)
Days(df) == df[Len(df)].date - df[1].date

(* ((capital / initial_capital) ** (1 / years) - 1) * 100 if years > 0 else 0 *)
(* With capital < 0 and years > 0 the float power has a negative base and a   *)
(* non-integer exponent (365.25 / days is never an integer): Python returns   *)
(* a complex number, which the float field annual_return_pct of               *)
(* PerformanceMetrics rejects with a ValidationError.  The value itself is    *)
(* kept symbolically.                                                        *)
AnnualReturnIsComplex(eng, cfg, df) == Days(df) > 0 /\ eng.capital < 0

annual_return_pct(eng, cfg, df) ==
    IF Days(df) > 0
    THEN [base |-> Pct(eng.capital, Money(cfg.initial_capital)), days |-> Days(df)]
    ELSE [base |-> Pct(0, 1), days |-> 0]

(* Mutant: a trade with pnl = 0 counts as a win. *)
IsWin_CountsTies(p) == Val(p.pnl) >= 0

IsWin(p) == Val(p.pnl) # 0 /\ Val(p.pnl) > 0
IsLoss(p) == Val(p.pnl) # 0 /\ Val(p.pnl) < 0
IsClosed(p) == p.status = "closed"

(* total_commission = sum(p.commission_paid for p in self.positions) *)
TotalCommission(eng) ==
    SumSeq([i \in 1..Len(eng.positions) |-> eng.positions[i].commission_paid])

Returns(eng) == [i \in 1..Len(eng.equity_curve) |-> eng.equity_curve[i].return_pct]

(* Mutant: profit_factor is null when there are no wins, and the losses are   *)
(* not made absolute.                                                        *)
calculate_metrics_NullWithoutWins(eng, cfg, df, mean_exact) ==
    LET total_return == eng.capital - Money(cfg.initial_capital)
        closed_positions == SelectSeq(eng.positions, IsClosed)
        total_trades == Len(closed_positions)
        win_list == SelectSeq(closed_positions, IsWin)
        loss_list == SelectSeq(closed_positions, IsLoss)
        wins == [i \in 1..Len(win_list) |-> Val(win_list[i].pnl)]
        losses == [i \in 1..Len(loss_list) |-> Val(loss_list[i].pnl)]
        total_wins == SumSeq(wins)
        dd == calculate_max_drawdown(
                  [i \in 1..Len(eng.equity_curve) |-> eng.equity_curve[i].equity])
    IN  [total_return |-> total_return,
         total_return_pct |-> Pct(total_return, Money(cfg.initial_capital)),
         annual_return_pct |-> annual_return_pct(eng, cfg, df),
         sharpe_ratio |-> calculate_sharpe_ratio(Returns(eng), mean_exact),
         max_drawdown |-> dd[1],
         max_drawdown_pct |-> dd[2],
         win_rate |-> IF total_trades > 0 THEN <<Len(win_list), total_trades>>
                      ELSE <<0, 1>>,
         total_trades |-> total_trades,
         winning_trades |-> Len(win_list),
         losing_trades |-> Len(loss_list),
         avg_win |-> IF wins # <<>> THEN <<total_wins, Len(wins)>> ELSE <<0, 1>>,
         avg_loss |-> IF losses # <<>> THEN <<SumSeq(losses), Len(losses)>>
                      ELSE <<0, 1>>,
         profit_factor |-> IF total_wins > 0 THEN Some(<<total_wins, SumSeq(losses)>>)
                           ELSE None,
         total_commission |-> TotalCommission(eng)]

calculate_metrics(eng, cfg, df, mean_exact) ==
    LET total_return == eng.capital - Money(cfg.initial_capital)
        closed_positions == SelectSeq(eng.positions, IsClosed)
        total_trades == Len(closed_positions)
        win_list == SelectSeq(closed_positions, IsWin)
        loss_list == SelectSeq(closed_positions, IsLoss)
        wins == [i \in 1..Len(win_list) |-> Val(win_list[i].pnl)]
        losses == [i \in 1..Len(loss_list) |-> Val(loss_list[i].pnl)]
        total_wins == SumSeq(wins)
        total_losses == IF SumSeq(losses) < 0 THEN -SumSeq(losses) ELSE SumSeq(losses)
        dd == calculate_max_drawdown(
                  [i \in 1..Len(eng.equity_curve) |-> eng.equity_curve[i].equity])
    IN  [total_return |-> total_return,
         total_return_pct |-> Pct(total_return, Money(cfg.initial_capital)),
         annual_return_pct |-> annual_return_pct(eng, cfg, df),
         sharpe_ratio |-> calculate_sharpe_ratio(Returns(eng), mean_exact),
         max_drawdown |-> dd[1],
         max_drawdown_pct |-> dd[2],
         win_rate |-> IF total_trades > 0 THEN <<Len(win_list), total_trades>>
                      ELSE <<0, 1>>,
         total_trades |-> total_trades,
         winning_trades |-> Len(win_list),
         losing_trades |-> Len(loss_list),
         avg_win |-> IF wins # <<>> THEN <<total_wins, Len(wins)>> ELSE <<0, 1>>,
         avg_loss |-> IF losses # <<>> THEN <<SumSeq(losses), Len(losses)>>
                      ELSE <<0, 1>>,
         profit_factor |-> IF total_losses > 0 THEN Some(<<total_wins, total_losses>>)
                           ELSE None,
         total_commission |-> TotalCommission(eng)]

(***************************************************************************)
(* engine.py: BacktestEngine.run.                                          *)
(***************************************************************************)
(* Mutant: the end bound is exclusive. *)
FilterDates_ExclusiveEnd(df, start_date, end_date) ==
    LET InRange(bar) ==
            /\ (start_date # None => bar.date >= Val(start_date))
            /\ (end_date # None => bar.date < Val(end_date))
    IN  SelectSeq(df, InRange)

(* df[df.index >= start_date], df[df.index <= end_date] *)
FilterDates(df, start_date, end_date) ==
    LET InRange(bar) ==
            /\ (start_date # None => bar.date >= Val(start_date))
            /\ (end_date # None => bar.date <= Val(end_date))
    IN  SelectSeq(df, InRange)

(* Mutant: the reset forgets self.capital. *)
ResetState_KeepsCapital(eng, cfg) ==
    [eng EXCEPT !.positions = <<>>, !.equity_curve = <<>>,
                !.current_position = None]

(* Mutant: the reset forgets self.current_position. *)
ResetState_KeepsPosition(eng, cfg) ==
    [eng EXCEPT !.capital = Money(cfg.initial_capital), !.positions = <<>>,
                !.equity_curve = <<>>]

(* The "Reset state" block of run. *)
ResetState(eng, cfg) ==
    [eng EXCEPT !.capital = Money(cfg.initial_capital), !.positions = <<>>,
                !.equity_curve = <<>>, !.current_position = None]

(* Mutant: the state is reset and the signals are generated before the      *)
(* filtered series is checked for emptiness.                                 *)
run_begin_ResetsFirst(eng, cfg, strategy, df, start_date, end_date) ==
    LET filtered == FilterDates(df, start_date, end_date)
    IN  IF filtered = <<>>
        THEN [raised |-> Some("ValueError"), eng |-> ResetState(eng, cfg),
              df |-> filtered, signals |-> generate_signals(strategy, filtered),
              generate_calls |-> 1]
        ELSE [raised |-> None, eng |-> ResetState(eng, cfg), df |-> filtered,
              signals |-> generate_signals(strategy, filtered),
              generate_calls |-> 1]

(* run up to the signal loop: filter, reject an empty series, reset,         *)
(* generate the signals.  raised is the exception leaving run, if any.       *)
run_begin(eng, cfg, strategy, df, start_date, end_date) ==
    LET filtered == FilterDates(df, start_date, end_date)
    IN  IF filtered = <<>>
        THEN [raised |-> Some("ValueError"), eng |-> eng, df |-> filtered,
              signals |-> <<>>, generate_calls |-> 0]
        ELSE [raised |-> None, eng |-> ResetState(eng, cfg), df |-> filtered,
              signals |-> generate_signals(strategy, filtered),
              generate_calls |-> 1]

(* run after the signal loop: the metrics and the BacktestResult. *)
run_end(eng, cfg, strategy, df, signals, mean_exact) ==
    IF AnnualReturnIsComplex(eng, cfg, df)
    THEN [raised |-> Some("ValidationError"), result |-> None]
    ELSE [raised |-> None,
          result |-> Some([strategy_type |-> strategy.name,
                           start_date |-> df[1].date,
                           end_date |-> df[Len(df)].date,
                           initial_capital |-> Money(cfg.initial_capital),
                           final_capital |-> eng.capital,
                           metrics |-> calculate_metrics(eng, cfg, df, mean_exact),
                           positions |-> eng.positions,
                           signals |-> signals,
                           equity_curve |-> eng.equity_curve])]

(***************************************************************************)
(* The inputs of run.                                                      *)
(***************************************************************************)
(* Short series of n daily bars whose closes alternate between the two      *)
(* prices (starting low, or starting high) or stay at the low price.        *)
UpDown(n) == [i \in 1..n |-> Bar(i, IF i % 2 = 1 THEN Close.lo ELSE Close.hi)]
DownUp(n) == [i \in 1..n |-> Bar(i, IF i % 2 = 1 THEN Close.hi ELSE Close.lo)]
Flat(n) == [i \in 1..n |-> Bar(i, Close.lo)]

ShortSeries == UNION { {UpDown(n), DownUp(n), Flat(n)} : n \in 0..MaxBars }

(* tests/test_backtesting.py sample_trending_data: 100 daily bars, closes    *)
(* 100.0, 100.5, ..., 149.5.                                                 *)
TrendingSeries == [i \in 1..100 |-> Bar(i, 200 + (i - 1))]

(* test_insufficient_capital: 10 daily bars, every close 10000. *)
ExpensiveSeries == [i \in 1..10 |-> Bar(i, 20000)]

(* Four daily bars with the closes 100.0, 50.0, 200.0 and 120.0: a fall by    *)
(* half, then a fall from a higher peak that is larger and relatively        *)
(* smaller.                                                                  *)
SwingSeries == <<Bar(1, 200), Bar(2, 100), Bar(3, 400), Bar(4, 240)>>

(* Four daily bars with the closes 50.0, 100.0, 100.0 and 50.0: a rise and a  *)
(* fall of the same size, so that two round trips win and lose.              *)
RiseFallSeries ==
    <<Bar(1, Close.lo), Bar(2, Close.hi), Bar(3, Close.hi), Bar(4, Close.lo)>>

Series ==
    ShortSeries \cup {TrendingSeries, ExpensiveSeries, SwingSeries, RiseFallSeries}

(* The (start_date, end_date) arguments: none, both bounds, an end bound     *)
(* alone and a start bound alone.                                            *)
DateRanges ==
    { <<None, None>>, <<Some(2), Some(3)>>, <<None, Some(1)>>, <<Some(3), None>> }

(* The series an engine that has been used before is run on again.  (Each    *)
(* state a run can end in is followed by every one of these calls, so the    *)
(* set is kept small; the first run of an engine draws from all of Series.)  *)
ReuseSeries == {DownUp(1), UpDown(2)}

(* The strategies run may be given for a series whose filtered length is n:  *)
(* BuyAndHold, and for short series every assignment of a kind to each bar.  *)
Strategies(n) ==
    {BuyAndHold} \cup
    (IF n \in 1..MaxBars THEN {Custom(k) : k \in [1..n -> SignalType]} ELSE {})

(***************************************************************************)
(* The state machine.                                                      *)
(***************************************************************************)
VARIABLES
    config,            \* self.config
    capital,           \* self.capital
    positions,         \* self.positions
    equity_curve,      \* self.equity_curve
    current_position,  \* self.current_position
    pc,                \* where the engine is: idle, exec (in the loop of run),
                       \* done (run returned), raised (run raised)
    args,              \* the arguments of the current or last call of run
    df,                \* run's local df, after filtering
    signals,           \* run's local signals
    next_signal,       \* the index of the next signal of the loop
    result,            \* the BacktestResult run returned, if any
    raised,            \* the exception that left run, if any
    generate_calls,    \* how often the call invoked strategy.generate_signals
    filled,            \* how many positions the call has opened
    reused,            \* the call is not the first reset of this engine
    prev_open,         \* a position was open when the call began
    mean_exact,        \* the float mean of equal returns is that return (where
                       \* rounding decides; TRUE otherwise)
    factory            \* the last call of the StrategyFactory: its arguments
                       \* and what it returned or raised

vars == <<config, capital, positions, equity_curve, current_position, pc, args,
          df, signals, next_signal, result, raised, generate_calls, filled,
          reused, prev_open, mean_exact, factory>>

Eng == [capital |-> capital, positions |-> positions,
        equity_curve |-> equity_curve, current_position |-> current_position]

SetEng(eng) ==
    /\ capital' = eng.capital
    /\ positions' = eng.positions
    /\ equity_curve' = eng.equity_curve
    /\ current_position' = eng.current_position

NoArgs == [strategy |-> BuyAndHold, df |-> <<>>, start_date |-> None,
           end_date |-> None]

NoCall == [op |-> "none", name |-> <<>>, params |-> None, raised |-> None,
           instance |-> None, listed |-> <<>>]

(* BacktestEngine.__init__ *)
Init ==
    /\ config \in Configs
    /\ capital = Money(config.initial_capital)
    /\ positions = <<>>
    /\ equity_curve = <<>>
    /\ current_position = None
    /\ pc = "idle"
    /\ args = NoArgs
    /\ df = <<>>
    /\ signals = <<>>
    /\ next_signal = 1
    /\ result = None
    /\ raised = None
    /\ generate_calls = 0
    /\ filled = 0
    /\ reused = FALSE
    /\ prev_open = FALSE
    /\ mean_exact = TRUE
    /\ factory = NoCall

(* A call of run, up to the signal loop. *)
RunBegin ==
    /\ pc \in {"idle", "done", "raised"}
    /\ \E series \in (IF pc = "idle" THEN Series ELSE ReuseSeries),
          range \in DateRanges :
         \E strategy \in Strategies(Len(FilterDates(series, range[1], range[2]))) :
            LET b == run_begin(Eng, config, strategy, series, range[1], range[2])
            IN  /\ args' = [strategy |-> strategy, df |-> series,
                            start_date |-> range[1], end_date |-> range[2]]
                /\ SetEng(b.eng)
                /\ df' = b.df
                /\ signals' = b.signals
                /\ raised' = b.raised
                /\ generate_calls' = b.generate_calls
                /\ pc' = IF b.raised = None THEN "exec" ELSE "raised"
                /\ reused' = IF b.raised = None THEN pc # "idle" \/ reused
                             ELSE reused
    /\ prev_open' = (current_position # None)
    /\ next_signal' = 1
    /\ result' = None
    /\ filled' = 0
    /\ mean_exact' = TRUE
    /\ UNCHANGED <<config, factory>>

(* One iteration of "for signal in signals: self._execute_signal(signal, df)" *)
ExecuteSignal ==
    /\ pc = "exec"
    /\ next_signal <= Len(signals)
    /\ \E after \in Executions(Eng, config, signals[next_signal]) :
          /\ SetEng(after)
          /\ filled' = IF current_position = None /\ after.current_position # None
                       THEN filled + 1 ELSE filled
    /\ next_signal' = next_signal + 1
    /\ UNCHANGED <<config, pc, args, df, signals, result, raised, generate_calls,
                   reused, prev_open, mean_exact, factory>>

(* The end of run: the metrics and the result, or the exception. *)
RunEnd ==
    /\ pc = "exec"
    /\ next_signal > Len(signals)
    /\ \E exact \in (IF RoundingDecides(Returns(Eng)) THEN BOOLEAN ELSE {TRUE}) :
          LET e == run_end(Eng, config, args.strategy, df, signals, exact)
          IN  /\ result' = e.result
              /\ raised' = e.raised
              /\ pc' = IF e.raised = None THEN "done" ELSE "raised"
              /\ mean_exact' = exact
    /\ UNCHANGED <<config, capital, positions, equity_curve, current_position,
                   args, df, signals, next_signal, generate_calls, filled, reused,
                   prev_open, factory>>

(***************************************************************************)
(* The built-in strategies run on every short series.                      *)
(***************************************************************************)
(* Every series of up to MaxBars daily bars over the three closes. *)
PriceSeries ==
    UNION { { [i \in 1..n |-> Bar(i, c[i])] :
                c \in [1..n -> {Close.lo, Close.mid, Close.hi}] } : n \in 0..MaxBars }

(* The built-in strategies with their default parameters, and with periods  *)
(* short enough for the series above.                                       *)
DefaultStrategies ==
    { BuyAndHold, SMACrossover(20, 50), RSI(14, 30, 70), MACD(12, 26, 9),
      BollingerBands(20, 4), MeanReversion(20, -4, 0) }

ShortPeriodStrategies ==
    { SMACrossover(1, 2), SMACrossover(2, 3), SMACrossover(3, 2),
      RSI(1, 30, 70), RSI(2, 30, 70),
      MACD(1, 2, 1), MACD(3, 1, 3),
      BollingerBands(1, 1), BollingerBands(2, 1), BollingerBands(3, 2),
      MeanReversion(1, -1, 0), MeanReversion(2, -1, 1), MeanReversion(3, -2, 0) }

BuiltInStrategies == DefaultStrategies \cup ShortPeriodStrategies

(* The first call of run on an engine, with a built-in strategy and no date *)
(* range.                                                                   *)
RunBuiltIn ==
    /\ pc = "idle"
    /\ \E series \in PriceSeries, strategy \in BuiltInStrategies :
          LET b == run_begin(Eng, config, strategy, series, None, None)
          IN  /\ args' = [strategy |-> strategy, df |-> series,
                          start_date |-> None, end_date |-> None]
              /\ SetEng(b.eng)
              /\ df' = b.df
              /\ signals' = b.signals
              /\ raised' = b.raised
              /\ generate_calls' = b.generate_calls
              /\ pc' = IF b.raised = None THEN "exec" ELSE "raised"
    /\ prev_open' = FALSE
    /\ next_signal' = 1
    /\ result' = None
    /\ filled' = 0
    /\ mean_exact' = TRUE
    /\ UNCHANGED <<config, reused, factory>>

(***************************************************************************)
(* The calls of the StrategyFactory.                                       *)
(***************************************************************************)
(* The names create is called with: the registered names, the names of the  *)
(* indicator strategies and two names of no strategy, in lower case, in     *)
(* upper case and capitalised.                                              *)
LowerCaseNames ==
    { n_buy_hold, n_buy_and_hold, n_sma_crossover, n_sma_cross, n_rsi, n_macd,
      n_bollinger_bands, n_mean_reversion, n_unknown, n_invalid_strategy }

RequestNames ==
    UNION { {n, upper(n), capitalize(n)} : n \in LowerCaseNames }

(* The params create is called with: None, {}, the parameter mappings of     *)
(* tests/test_backtesting.py, and a keyword no constructor has.              *)
RequestParams ==
    { None, Some(NoParams),
      Some([fast_period |-> 10, slow_period |-> 30]),
      Some([fast_period |-> 10]),
      Some([period |-> 10, oversold |-> 25, overbought |-> 75]),
      Some([fast_period |-> 10, slow_period |-> 20, signal_period |-> 5]),
      Some([period |-> 15, std_dev |-> 3]),      \* std_dev 1.5
      Some([period |-> 30]),
      Some([window |-> 5]) }

Create ==
    /\ \E name \in RequestNames, params \in RequestParams :
          factory' = [op |-> "create", name |-> name, params |-> params,
                      raised |-> create(name, params).raised,
                      instance |-> create(name, params).instance,
                      listed |-> <<>>]
    /\ UNCHANGED <<config, capital, positions, equity_curve, current_position, pc,
                   args, df, signals, next_signal, result, raised, generate_calls,
                   filled, reused, prev_open, mean_exact>>

ListStrategies ==
    /\ factory' = [NoCall EXCEPT !.op = "list", !.listed = list_strategies]
    /\ UNCHANGED <<config, capital, positions, equity_curve, current_position, pc,
                   args, df, signals, next_signal, result, raised, generate_calls,
                   filled, reused, prev_open, mean_exact>>

NextFactory == Create \/ ListStrategies

FactorySpec == Init /\ [][NextFactory]_vars

Next == RunBegin \/ ExecuteSignal \/ RunEnd

NextBuiltIn == RunBuiltIn \/ ExecuteSignal \/ RunEnd

BuiltInSpec == Init /\ [][NextBuiltIn]_vars

Spec == Init /\ [][Next]_vars

(***************************************************************************)
(* Runs whose floats are rounded: engines with a commission_pct of 0.037      *)
(* and of 0.047, for which the BUY that follows a SELL at twice the entry     *)
(* price meets a capital that is a whole number of times the cost per share.  *)
(***************************************************************************)
RoundedConfigs ==
    { BacktestConfig(237, 0, 37, 0, 0, 2),     \* commission_pct = 0.037
      BacktestConfig(247, 0, 47, 0, 0, 2) }    \* commission_pct = 0.047

InitRounded ==
    /\ config \in RoundedConfigs
    /\ capital = Money(config.initial_capital)
    /\ positions = <<>>
    /\ equity_curve = <<>>
    /\ current_position = None
    /\ pc = "idle"
    /\ args = NoArgs
    /\ df = <<>>
    /\ signals = <<>>
    /\ next_signal = 1
    /\ result = None
    /\ raised = None
    /\ generate_calls = 0
    /\ filled = 0
    /\ reused = FALSE
    /\ prev_open = FALSE
    /\ mean_exact = TRUE
    /\ factory = NoCall

RoundedSpec == InitRounded /\ [][Next]_vars

\* The signals generate_signals returns for the series of the current call.
Generated == generate_signals(args.strategy, df)

(***************************************************************************)
(* A whole run as a function of the engine it is called on and its inputs.  *)
(***************************************************************************)
(* The signal loop of run from the i-th signal up to the n-th. *)
RECURSIVE Replay(_, _, _, _, _)
Replay(eng, cfg, sigs, i, n) ==
    IF i > n THEN eng
    ELSE Replay(execute_signal(eng, cfg, sigs[i]), cfg, sigs, i + 1, n)

run(eng, cfg, a, exact) ==
    LET b == run_begin(eng, cfg, a.strategy, a.df, a.start_date, a.end_date)
        after == Replay(b.eng, cfg, b.signals, 1, Len(b.signals))
        e == run_end(after, cfg, a.strategy, b.df, b.signals, exact)
    IN  IF b.raised # None
        THEN [raised |-> b.raised, result |-> None, eng |-> b.eng,
              signals |-> b.signals]
        ELSE [raised |-> e.raised, result |-> e.result, eng |-> after,
              signals |-> b.signals]

(* Every position an engine holds: the closed ones and the open one. *)
AllPositions(eng) == eng.positions \o eng.current_position

Initial == Money(config.initial_capital)

(* The signal loop of the current call is over (run returned, or raised      *)
(* while computing the metrics).                                             *)
LoopOver == pc \in {"done", "raised"} /\ raised # Some("ValueError")

(* The commission_pct values runs are compared under: 0, 0.001, 0.01. *)
CommissionPcts == {0, 1, 10}

WithCommissionPct(c) == [config EXCEPT !.commission_pct = c]

(***************************************************************************)
(* C1.  Capital conservation: as long as a run has filled no BUY, capital    *)
(* equals initial_capital after every processed signal, whatever the         *)
(* signals; and the run then returns final_capital = initial_capital.        *)
(***************************************************************************)
C1_CapitalConservation ==
    (pc \in {"exec", "done"} /\ filled = 0) =>
        /\ capital = Initial
        /\ pc = "done" => /\ result # None
                          /\ Val(result).final_capital = Val(result).initial_capital
                          /\ Val(result).final_capital = Initial

(* A finished run with a BUY, a SELL and a HOLD among its signals and        *)
(* nothing filled.                                                           *)
C1_Witness ==
    /\ pc = "done" /\ filled = 0 /\ Len(signals) >= 3
    /\ \A k \in SignalType : \E i \in 1..Len(signals) : signals[i].signal = k

(***************************************************************************)
(* C2.  At most one position is open at any time, and the positions of the   *)
(* engine do not overlap: every position has entry_date <= exit_date, and    *)
(* the exit_date of a position is <= the entry_date of every position        *)
(* opened after it (the open one included).                                  *)
(***************************************************************************)
C2_NoOverlap ==
    LET all == AllPositions(Eng)
    IN  /\ Cardinality({i \in 1..Len(all) : all[i].status = "open"}) <= 1
        /\ \A i \in 1..Len(all) :
              all[i].exit_date # None => all[i].entry_date <= Val(all[i].exit_date)
        /\ \A i, j \in 1..Len(all) :
              i < j => /\ all[i].exit_date # None
                       /\ Val(all[i].exit_date) <= all[j].entry_date

(* Two closed positions. *)
C2_Witness == Len(positions) = 2 /\ current_position = None

(***************************************************************************)
(* C3.  Commission monotonicity.                                             *)
(* As claimed: of two runs that differ in commission_pct alone, the one       *)
(* with the higher commission_pct ends with final_capital <= the other's,     *)
(* and with equal final_capital only if no trade occurred.                    *)
(***************************************************************************)
C3_CommissionMonotonic ==
    LoopOver =>
        \A c \in CommissionPcts :
            c > config.commission_pct =>
                LET other == run(FreshState(WithCommissionPct(c)),
                                 WithCommissionPct(c), args, mean_exact).eng
                IN  /\ other.capital <= capital
                    /\ other.capital = capital =>
                           filled = 0 /\ AllPositions(other) = <<>>

(* The entry dates and quantities of the positions an engine opened. *)
Fills(eng) ==
    [i \in 1..Len(AllPositions(eng)) |->
        <<AllPositions(eng)[i].entry_date, AllPositions(eng)[i].quantity>>]

(* C3 as amended: of two runs that differ in commission_pct alone and that   *)
(* open the same positions with the same quantities, the one with the higher  *)
(* commission_pct ends the signal loop with capital <= the other's, and with  *)
(* strictly less as soon as one position was opened.                          *)
C3_MonotonicForEqualFills ==
    LoopOver =>
        \A c \in CommissionPcts :
            c > config.commission_pct =>
                LET other == run(FreshState(WithCommissionPct(c)),
                                 WithCommissionPct(c), args, mean_exact).eng
                IN  Fills(other) = Fills(Eng) =>
                        /\ other.capital <= capital
                        /\ filled > 0 => other.capital < capital

(* A finished run with a closed trade that a run at a higher commission_pct  *)
(* repeats with the same quantities.                                          *)
C3_Witness ==
    /\ pc = "done" /\ filled > 0 /\ positions # <<>>
    /\ \E c \in CommissionPcts :
          /\ c > config.commission_pct
          /\ Fills(run(FreshState(WithCommissionPct(c)),
                       WithCommissionPct(c), args, mean_exact).eng) = Fills(Eng)

(***************************************************************************)
(* C4.  State reset on reuse: a call of run on an engine that has been used  *)
(* before goes through the states, and ends with the result (or exception),  *)
(* of the same call on a freshly constructed engine, however the earlier     *)
(* call ended.                                                               *)
(***************************************************************************)
C4_ResetOnReuse ==
    (reused /\ pc \in {"exec", "done", "raised"} /\ raised # Some("ValueError")) =>
        LET fresh == run(FreshState(config), config, args, mean_exact)
            begun == run_begin(FreshState(config), config, args.strategy, args.df,
                               args.start_date, args.end_date)
        IN  /\ signals = begun.signals
            /\ Eng = Replay(begun.eng, config, begun.signals, 1, next_signal - 1)
            /\ pc # "exec" => result = fresh.result /\ raised = fresh.raised

(* A reused engine whose earlier call left a position open has finished a    *)
(* run with a trade.                                                          *)
C4_Witness == reused /\ prev_open /\ pc = "done" /\ positions # <<>>

(***************************************************************************)
(* C5.  run raises only when the date-filtered series is empty.              *)
(***************************************************************************)
C5_RaisesOnlyOnEmpty ==
    pc = "raised" =>
        FilterDates(args.df, args.start_date, args.end_date) = <<>>

(***************************************************************************)
(* C6.  Input error is atomic: a call of run that raises because the         *)
(* filtered series is empty leaves capital, positions, equity curve and       *)
(* open position as they were, and does not invoke generate_signals.          *)
(***************************************************************************)
C6_InputErrorAtomic ==
    [][(pc' = "raised" /\ raised' = Some("ValueError")) =>
          /\ UNCHANGED <<capital, positions, equity_curve, current_position>>
          /\ generate_calls' = 0]_vars

(* The call raised on an engine that an earlier run left with trades, an      *)
(* equity curve and a changed capital.                                        *)
C6_Witness ==
    /\ pc = "raised" /\ raised = Some("ValueError")
    /\ positions # <<>> /\ equity_curve # <<>> /\ capital # Initial

(***************************************************************************)
(* C7.  total_commission is the sum of commission_paid over all positions    *)
(* opened during the run, the one still open at the end included.            *)
(***************************************************************************)
C7_TotalCommissionAllPositions ==
    pc = "done" =>
        Val(result).metrics.total_commission =
            SumSeq([i \in 1..Len(AllPositions(Eng)) |->
                       AllPositions(Eng)[i].commission_paid])

(***************************************************************************)
(* C8.  Buy-and-hold on a series whose last close is >= its first close,     *)
(* once with commission_pct = 0 and once with 0.01, both runs buying at      *)
(* least one share.                                                          *)
(***************************************************************************)
BuyAndHoldRising ==
    /\ LoopOver
    /\ args.strategy = BuyAndHold
    /\ df[Len(df)].Close >= df[1].Close
    /\ config.commission_pct = 0
    /\ filled > 0
    /\ AllPositions(run(FreshState(WithCommissionPct(10)),
                        WithCommissionPct(10), args, mean_exact).eng) # <<>>

CommissionLowersCapital ==
    LET other == run(FreshState(WithCommissionPct(10)), WithCommissionPct(10), args, mean_exact).eng
    IN  /\ other.capital < capital
        /\ TotalCommission(other) > 0

(* As claimed, for every configuration: the 0.01 run ends with strictly less *)
(* capital and has total_commission > 0.                                     *)
C8_CommissionLowersFinalCapital == BuyAndHoldRising => CommissionLowersCapital

(* C8 as amended: the same with slippage = 0 and slippage_pct = 0. *)
C8_LowersWithoutSlippage ==
    (BuyAndHoldRising /\ config.slippage = 0 /\ config.slippage_pct = 0) =>
        CommissionLowersCapital

C8_Witness ==
    /\ BuyAndHoldRising /\ config.slippage = 0 /\ config.slippage_pct = 0
    /\ pc = "done" /\ df = TrendingSeries /\ config.initial_capital = 10000

(***************************************************************************)
(* C9.  Buy-and-hold over the 100-bar series 100.0, 100.5, ..., 149.5 with    *)
(* initial_capital = 10000 and commission_pct = 0.001 returns exactly one     *)
(* position, closed, entered at the first bar and exited at the last, with    *)
(* total_trades = 1, winning_trades = 1, losing_trades = 0, win_rate = 1,     *)
(* total_return > 0 and total_return_pct > 0.                                 *)
(***************************************************************************)
TrendingScenario ==
    /\ pc \in {"done", "raised"}
    /\ config = BacktestConfig(10000, 0, 1, 0, 0, 2)
    /\ args = [strategy |-> BuyAndHold, df |-> TrendingSeries,
               start_date |-> None, end_date |-> None]

C9_BuyAndHoldTrending ==
    TrendingScenario =>
        /\ pc = "done"
        /\ LET r == Val(result)
               m == r.metrics
           IN  /\ Len(r.positions) = 1
               /\ r.positions[1].status = "closed"
               /\ r.positions[1].entry_date = TrendingSeries[1].date
               /\ r.positions[1].exit_date = Some(TrendingSeries[100].date)
               /\ m.total_trades = 1
               /\ m.winning_trades = 1
               /\ m.losing_trades = 0
               /\ m.win_rate[1] = m.win_rate[2]
               /\ m.total_return > 0
               /\ m.total_return_pct.num > 0 /\ m.total_return_pct.den > 0

C9_Witness == TrendingScenario /\ result # None

(***************************************************************************)
(* C10.  A BUY while FLAT whose computed quantity is <= 0 is skipped: no     *)
(* position is created, capital is unchanged and the run goes on; a          *)
(* buy-and-hold run whose BUY is skipped this way drops the SELL too and      *)
(* returns normally with zero positions and final_capital = initial_capital.  *)
(***************************************************************************)
BuySkipped ==
    /\ pc = "exec" /\ next_signal <= Len(signals)
    /\ signals[next_signal].signal = "buy"
    /\ current_position = None
    /\ Quantity(config, capital, signals[next_signal].price) <= 0

BuyAndHoldUnaffordable ==
    /\ pc \in {"done", "raised"} /\ raised # Some("ValueError")
    /\ args.strategy = BuyAndHold
    /\ Quantity(config, Initial, df[1].Close) <= 0

C10_ZeroQuantitySkipped ==
    /\ [][BuySkipped =>
            /\ current_position' = None
            /\ capital' = capital
            /\ positions' = positions
            /\ pc' = "exec" /\ next_signal' = next_signal + 1]_vars
    /\ [](BuyAndHoldUnaffordable =>
            /\ pc = "done"
            /\ current_position = None
            /\ Val(result).positions = <<>>
            /\ Val(result).final_capital = Initial
            /\ Val(result).metrics.total_trades = 0)

(* test_insufficient_capital: initial_capital 100, every close 10000. *)
C10_Witness ==
    /\ BuyAndHoldUnaffordable
    /\ config.initial_capital = 100 /\ df = ExpensiveSeries /\ pc = "done"

(***************************************************************************)
(* C11.  An indicator strategy fed a non-empty series shorter than its       *)
(* minimum lookback (SMACrossover: slow_period; RSI: period + 1; MACD:       *)
(* slow_period + signal_period; BollingerBands and MeanReversion: period)    *)
(* returns no signals, and the run does not raise and returns zero           *)
(* positions, an empty equity curve, total_trades = 0, final_capital =       *)
(* initial_capital, max_drawdown = 0 and a null sharpe_ratio.                *)
(***************************************************************************)
Lookback(strategy) ==
    CASE strategy.name = "SMACrossover" -> strategy.slow_period
      [] strategy.name = "RSI" -> strategy.period + 1
      [] strategy.name = "MACD" -> strategy.slow_period + strategy.signal_period
      [] strategy.name \in {"BollingerBands", "MeanReversion"} -> strategy.period

ShortOfLookback ==
    /\ pc # "idle" /\ df # <<>>
    /\ args.strategy.name \in BuiltIn \ {"BuyAndHold"}
    /\ Len(df) < Lookback(args.strategy)

C11_ShortSeriesNoTrades ==
    ShortOfLookback =>
        /\ Generated = <<>> /\ signals = <<>>
        /\ pc # "raised"
        /\ pc = "done" =>
              /\ Val(result).positions = <<>>
              /\ Val(result).equity_curve = <<>>
              /\ Val(result).metrics.total_trades = 0
              /\ Val(result).final_capital = Val(result).initial_capital
              /\ Val(result).metrics.max_drawdown = 0
              /\ Val(result).metrics.sharpe_ratio = None

(* A finished run of MACD(3, 1, 3) over three bars that are not flat. *)
C11_Witness ==
    /\ ShortOfLookback /\ pc = "done"
    /\ args.strategy = MACD(3, 1, 3) /\ Len(df) = 3 /\ df[1].Close # df[2].Close

(***************************************************************************)
(* C12.  The signals a built-in strategy returns are strictly chronological: *)
(* each signal's date is later than the date of the signal before it.        *)
(***************************************************************************)
C12_StrictlyChronological ==
    (pc # "idle" /\ args.strategy.name \in BuiltIn) =>
        \A i \in 1..(Len(Generated) - 1) :
            Generated[i].date < Generated[i + 1].date

(***************************************************************************)
(* C13.  The signals a built-in strategy returns alternate BUY, SELL, BUY,   *)
(* SELL, ..., starting with a BUY and ending with a SELL.                    *)
(***************************************************************************)
C13_Alternate ==
    (pc # "idle" /\ args.strategy.name \in BuiltIn) =>
        /\ \A i \in 1..Len(Generated) :
              Generated[i].signal = IF i % 2 = 1 THEN "buy" ELSE "sell"
        /\ Len(Generated) % 2 = 0

(* An indicator strategy returned two round trips. *)
C13_Witness ==
    /\ pc = "done" /\ args.strategy.name \in BuiltIn \ {"BuyAndHold"}
    /\ Len(signals) = 4

(***************************************************************************)
(* C14.  When the scan of a built-in strategy ends in an open position the   *)
(* last signal is a SELL at the date and close of the final bar of the       *)
(* series.                                                                   *)
(***************************************************************************)
EndsLong ==
    /\ pc # "idle"
    /\ args.strategy.name \in BuiltIn \ {"BuyAndHold"}
    /\ Len(df) >= MinBars(args.strategy)
    /\ Scan(args.strategy, df).loop.position = Some("long")

C14_ClosingSellAtFinalBar ==
    EndsLong =>
        /\ Generated # <<>>
        /\ Generated[Len(Generated)] =
               Signal(df[Len(df)].date, "sell", df[Len(df)].Close)

(***************************************************************************)
(* C15.  run keeps exactly the bars whose date d satisfies                   *)
(* start_date <= d <= end_date (a missing bound is unbounded), in their      *)
(* order; the strategy is given those bars only; and the result's            *)
(* start_date / end_date are the dates of the first / last bar kept, which   *)
(* lie within the requested bounds.                                          *)
(***************************************************************************)
Requested(d) ==
    /\ (args.start_date # None => d >= Val(args.start_date))
    /\ (args.end_date # None => d <= Val(args.end_date))

C15_DateFilter ==
    (pc # "idle" /\ raised # Some("ValueError")) =>
        /\ \A j \in 1..Len(args.df) :
              Requested(args.df[j].date) <=> (\E i \in 1..Len(df) : df[i] = args.df[j])
        /\ \A i \in 1..Len(df) : \E j \in 1..Len(args.df) : df[i] = args.df[j]
        /\ \A i \in 1..(Len(df) - 1) : df[i].date < df[i + 1].date
        /\ signals = Generated
        /\ \A i \in 1..Len(signals) : Requested(signals[i].date)
        /\ pc = "done" =>
              /\ Val(result).start_date = df[1].date
              /\ Val(result).end_date = df[Len(df)].date
              /\ Requested(Val(result).start_date)
              /\ Requested(Val(result).end_date)

(* A finished run over the two middle bars of a four-bar series. *)
C15_Witness ==
    /\ pc = "done" /\ args.start_date # None /\ args.end_date # None
    /\ Len(args.df) = 4 /\ Len(df) = 2 /\ Len(signals) = 2

(***************************************************************************)
(* C16.  Win/loss partition: total_trades is the number of closed            *)
(* positions, winning_trades the number of those with pnl > 0,               *)
(* losing_trades the number with pnl < 0 (pnl = 0 counts toward neither),    *)
(* winning_trades + losing_trades <= total_trades, and win_rate is           *)
(* winning_trades / total_trades, within [0, 1], and 0 without trades.       *)
(***************************************************************************)
C16_WinLossPartition ==
    pc = "done" =>
        LET r == Val(result)
            m == r.metrics
            closed == {i \in 1..Len(r.positions) : r.positions[i].status = "closed"}
            won == {i \in closed : Val(r.positions[i].pnl) > 0}
            lost == {i \in closed : Val(r.positions[i].pnl) < 0}
        IN  /\ m.total_trades = Cardinality(closed)
            /\ m.winning_trades = Cardinality(won)
            /\ m.losing_trades = Cardinality(lost)
            /\ m.winning_trades + m.losing_trades <= m.total_trades
            /\ m.win_rate[2] > 0
            /\ m.win_rate[1] >= 0 /\ m.win_rate[1] <= m.win_rate[2]
            /\ m.win_rate[1] * m.total_trades = m.winning_trades * m.win_rate[2]

(* A finished run whose single closed trade has pnl = 0. *)
C16_Witness ==
    /\ pc = "done" /\ Len(positions) = 1 /\ positions[1].pnl = Some(0)
    /\ Val(result).metrics.total_trades = 1
    /\ Val(result).metrics.winning_trades = 0

(***************************************************************************)
(* C17.  Drawdown non-negativity: max_drawdown >= 0 and                      *)
(* max_drawdown_pct >= 0 for every equity curve of a run, the empty one      *)
(* included, and both are 0 when the equity curve is non-decreasing.         *)
(***************************************************************************)
NonDecreasing(curve) ==
    \A i \in 1..(Len(curve) - 1) : curve[i].equity <= curve[i + 1].equity

C17_DrawdownNonNegative ==
    pc = "done" =>
        LET m == Val(result).metrics
        IN  /\ m.max_drawdown >= 0
            /\ m.max_drawdown_pct.num >= 0 /\ m.max_drawdown_pct.den > 0
            /\ NonDecreasing(Val(result).equity_curve) =>
                   m.max_drawdown = 0 /\ m.max_drawdown_pct.num = 0

(* A finished run whose equity curve rises. *)
C17_Witness ==
    /\ pc = "done" /\ Len(equity_curve) >= 2 /\ NonDecreasing(equity_curve)
    /\ equity_curve[1].equity < equity_curve[Len(equity_curve)].equity

(***************************************************************************)
(* C18.  Sharpe nullability: sharpe_ratio is null when the equity curve has  *)
(* fewer than 2 points and when all its return_pct values are equal, and     *)
(* non-null when it has at least 2 points that are not all equal.            *)
(***************************************************************************)
C18_SharpeNullability ==
    pc = "done" =>
        LET sharpe == Val(result).metrics.sharpe_ratio
            returns == Returns([equity_curve |-> Val(result).equity_curve])
        IN  /\ Len(returns) < 2 => sharpe = None
            /\ AllEqual(returns) => sharpe = None
            /\ (Len(returns) >= 2 /\ ~AllEqual(returns)) => sharpe # None

(***************************************************************************)
(* C19.  StrategyFactory.create resolves 'rsi', 'macd', 'bollinger_bands'    *)
(* and 'mean_reversion' with their parameter mappings to instances of        *)
(* RSIStrategy, MACDStrategy, BollingerBandsStrategy and                     *)
(* MeanReversionStrategy, and list_strategies lists at least 6 strategies,   *)
(* these four among them.                                                    *)
(***************************************************************************)
Created(name, params) ==
    factory.op = "create" /\ factory.name = name /\ factory.params = Some(params)

C19_NewStrategiesRegistered ==
    /\ Created(n_rsi, [period |-> 10, oversold |-> 25, overbought |-> 75]) =>
           factory.instance = Some(RSI(10, 25, 75))
    /\ Created(n_macd, [fast_period |-> 10, slow_period |-> 20, signal_period |-> 5]) =>
           factory.instance = Some(MACD(10, 20, 5))
    /\ Created(n_bollinger_bands, [period |-> 15, std_dev |-> 3]) =>
           factory.instance = Some(BollingerBands(15, 3))
    /\ Created(n_mean_reversion, [period |-> 30]) =>
           factory.instance = Some(MeanReversion(30, -2 * Unit.z, 0))
    /\ factory.op = "list" =>
           /\ Len(factory.listed) >= 6
           /\ \A class \in {"RSIStrategy", "MACDStrategy", "BollingerBandsStrategy",
                            "MeanReversionStrategy"} :
                 \E i \in 1..Len(factory.listed) : factory.listed[i].class = class

(***************************************************************************)
(* C20.  StrategyFactory.create resolves a name whatever its case, and the   *)
(* aliases buy_hold / buy_and_hold and sma_crossover / sma_cross to the same *)
(* class; a name of no strategy, and parameters the constructor does not     *)
(* accept, raise ValueError; create raises no other exception, and returns   *)
(* no instance when it raises.                                               *)
(***************************************************************************)
EqualIgnoringCase(a, b) ==
    /\ Len(a) = Len(b)
    /\ \A i \in 1..Len(a) :
          \/ a[i] = b[i]
          \/ \E j \in 1..Len(Letters) : {a[i], b[i]} = {Letters[j], Capitals[j]}

Names(class) ==
    CASE class = "BuyAndHold" -> {n_buy_hold, n_buy_and_hold}
      [] class = "SMACrossover" -> {n_sma_crossover, n_sma_cross}
      [] class = "indicator" -> {n_rsi, n_macd, n_bollinger_bands, n_mean_reversion}

Called(class) == \E n \in Names(class) : EqualIgnoringCase(factory.name, n)

Keywords == IF factory.params = None THEN {} ELSE DOMAIN Val(factory.params)

Resolved(class, accepted) ==
    Called(class) =>
        IF Keywords \subseteq accepted
        THEN /\ factory.raised = None /\ factory.instance # None
             /\ Val(factory.instance).name = class
             /\ \A k \in Keywords : Val(factory.instance)[k] = Val(factory.params)[k]
        ELSE factory.raised = Some("ValueError")

C20_NamesAndErrors ==
    factory.op = "create" =>
        /\ factory.raised \in {None, Some("ValueError")}
        /\ factory.raised # None => factory.instance = None
        /\ Resolved("BuyAndHold", {})
        /\ Resolved("SMACrossover", {"fast_period", "slow_period"})
        /\ ~(Called("BuyAndHold") \/ Called("SMACrossover") \/ Called("indicator")) =>
               factory.raised = Some("ValueError")

(* SMA_CROSS with parameters was resolved, and Buy_hold with a keyword the    *)
(* constructor does not have was refused.                                    *)
C20_Witness ==
    /\ factory.op = "create"
    /\ \/ /\ factory.name = upper(n_sma_cross)
          /\ factory.instance = Some(SMACrossover(10, 30))
       \/ /\ factory.name = capitalize(n_buy_hold)
          /\ factory.params = Some([window |-> 5])
          /\ factory.raised = Some("ValueError")

(***************************************************************************)
(* C21.  An accepted BUY while flat: entry_price = signal.price *            *)
(* (1 + slippage_pct) + slippage; quantity is the floor of (capital *         *)
(* position_size_pct - commission) / (entry_price * (1 + commission_pct)),    *)
(* with the capital of that moment; capital falls by exactly quantity *       *)
(* entry_price + commission + quantity * entry_price * commission_pct; and    *)
(* one OPEN LONG position with that positive quantity, that entry_value and   *)
(* that commission is created.                                               *)
(***************************************************************************)
(* The loop of run is about to execute a signal of the kind. *)
AtSignal(kind) ==
    pc = "exec" /\ next_signal <= Len(signals) /\ signals[next_signal].signal = kind

C21_AcceptedBuy ==
    [][(AtSignal("buy") /\ current_position = None /\ current_position' # None) =>
        LET sig == signals[next_signal]
            p == Val(current_position')
            entry_price ==
                (PriceM(sig.price) \div Unit.slip) * (Unit.slip + config.slippage_pct)
                    + PriceM(config.slippage)
            cost_per_share ==
                (entry_price \div Unit.pct) * (Unit.pct + config.commission_pct)
            budget == capital * config.position_size_pct
                          - Money(config.commission) * Unit.size
        IN  /\ p.entry_price = entry_price
            /\ p.quantity > 0
            /\ p.quantity * cost_per_share * Unit.size <= budget
            /\ (p.quantity + 1) * cost_per_share * Unit.size > budget
            /\ p.entry_value = p.quantity * entry_price
            /\ p.commission_paid =
                   Money(config.commission)
                       + (p.entry_value \div Unit.pct) * config.commission_pct
            /\ capital' = capital - p.entry_value - p.commission_paid
            /\ p.status = "open" /\ p.side = "long" /\ p.entry_date = sig.date
            /\ p.exit_date = None /\ p.exit_price = None /\ p.exit_value = None
            /\ p.pnl = None /\ p.pnl_pct = None
            /\ positions' = positions]_vars

(* The second BUY of a run was accepted with a capital that was not           *)
(* initial_capital.                                                          *)
C21_Witness ==
    /\ pc = "exec" /\ next_signal > 1 /\ signals[next_signal - 1].signal = "buy"
    /\ current_position # None /\ Len(positions) = 1
    /\ Val(current_position).entry_date = signals[next_signal - 1].date
    /\ capital + Val(current_position).entry_value
           + Val(current_position).commission_paid # Initial

(***************************************************************************)
(* C22.  A SELL while a position is open: exit_price = signal.price *         *)
(* (1 - slippage_pct) - slippage; exit_value = quantity * exit_price;         *)
(* exit commission = commission + exit_value * commission_pct; capital        *)
(* rises by exactly exit_value - exit commission; pnl = exit_value -          *)
(* entry_value - (entry + exit commission), pnl_pct = pnl / entry_value *     *)
(* 100; the position becomes CLOSED with commission_paid = entry + exit       *)
(* commission, is appended once to positions, and the engine is flat.         *)
(***************************************************************************)
C22_Sell ==
    [][(AtSignal("sell") /\ current_position # None) =>
        LET sig == signals[next_signal]
            pos == Val(current_position)
            exit_price ==
                (PriceM(sig.price) \div Unit.slip) * (Unit.slip - config.slippage_pct)
                    - PriceM(config.slippage)
            exit_value == pos.quantity * exit_price
            exit_commission ==
                Money(config.commission)
                    + (exit_value \div Unit.pct) * config.commission_pct
            pnl == exit_value - pos.entry_value
                       - (pos.commission_paid + exit_commission)
        IN  /\ capital' = capital + exit_value - exit_commission
            /\ current_position' = None
            /\ Len(positions') = Len(positions) + 1
            /\ SubSeq(positions', 1, Len(positions)) = positions
            /\ LET closed == positions'[Len(positions')]
               IN  /\ closed.status = "closed"
                   /\ closed.exit_date = Some(sig.date)
                   /\ closed.exit_price = Some(exit_price)
                   /\ closed.exit_value = Some(exit_value)
                   /\ closed.pnl = Some(pnl)
                   /\ Val(closed.pnl_pct).num = pnl
                   /\ Val(closed.pnl_pct).den = pos.entry_value
                   /\ closed.commission_paid = pos.commission_paid + exit_commission
                   /\ closed.entry_date = pos.entry_date
                   /\ closed.entry_price = pos.entry_price
                   /\ closed.quantity = pos.quantity
                   /\ closed.entry_value = pos.entry_value
                   /\ closed.side = pos.side]_vars

(* A SELL with slippage or commission has just closed a position at a loss    *)
(* or a gain.                                                                *)
C22_Witness ==
    /\ pc = "exec" /\ next_signal > 1 /\ signals[next_signal - 1].signal = "sell"
    /\ current_position = None /\ positions # <<>>
    /\ LET closed == positions[Len(positions)]
       IN  /\ closed.exit_date = Some(signals[next_signal - 1].date)
           /\ Val(closed.exit_price) # PriceM(signals[next_signal - 1].price)
           /\ Val(closed.pnl) # 0

(***************************************************************************)
(* C23.  A BUY received while a position is open, a SELL received while no    *)
(* position is open, and a HOLD in either state leave capital, the open       *)
(* position and the closed positions as they were; the only effect is one     *)
(* appended equity point, and the loop goes on to the next signal.            *)
(***************************************************************************)
NoOpSignal ==
    \/ AtSignal("buy") /\ current_position # None
    \/ AtSignal("sell") /\ current_position = None
    \/ AtSignal("hold")

C23_NoOpSignals ==
    [][NoOpSignal =>
        /\ capital' = capital
        /\ current_position' = current_position
        /\ positions' = positions
        /\ Len(equity_curve') = Len(equity_curve) + 1
        /\ SubSeq(equity_curve', 1, Len(equity_curve)) = equity_curve
        /\ next_signal' = next_signal + 1
        /\ pc' = "exec"]_vars

(* SELL while flat, BUY, BUY while open and HOLD while open were processed,   *)
(* and the position of the first BUY is still the open one.                   *)
C23_Witness ==
    /\ pc = "exec" /\ next_signal = 5
    /\ [i \in 1..4 |-> signals[i].signal] = <<"sell", "buy", "buy", "hold">>
    /\ current_position # None
    /\ Val(current_position).entry_date = signals[2].date
    /\ positions = <<>> /\ Len(equity_curve) = 4

(***************************************************************************)
(* C24.  One equity point is appended per processed signal: during the loop   *)
(* the length of the equity curve is the number of signals processed so far,  *)
(* and in the result len(equity_curve) = len(signals).  The cash of a point   *)
(* is the capital after the signal; its equity is cash + quantity *           *)
(* signal.price if a position is open after the signal, else cash; its        *)
(* return is equity - initial_capital.                                        *)
(***************************************************************************)
C24_Lengths ==
    /\ pc = "exec" => Len(equity_curve) = next_signal - 1
    /\ pc = "done" =>
           /\ Len(Val(result).equity_curve) = Len(Val(result).signals)
           /\ Len(equity_curve) = Len(signals)

C24_Point ==
    (pc = "exec" /\ next_signal <= Len(signals)) =>
        /\ Len(equity_curve') = Len(equity_curve) + 1
        /\ LET sig == signals[next_signal]
               point == equity_curve'[Len(equity_curve')]
           IN  /\ point.cash = capital'
               /\ point.equity =
                      IF current_position' # None
                      THEN capital' + Val(current_position').quantity * PriceM(sig.price)
                      ELSE capital'
               /\ point.return = point.equity - Initial

C24_EquityPoints == [](C24_Lengths) /\ [][C24_Point]_vars

(* A finished run of four signals with a HOLD among them, a point with an     *)
(* open position and a point without.                                        *)
C24_Witness ==
    /\ pc = "done" /\ Len(Val(result).equity_curve) = 4
    /\ \E i \in 1..4 : signals[i].signal = "hold"
    /\ \E i \in 1..4 : equity_curve[i].equity # equity_curve[i].cash
    /\ \E i \in 1..4 : equity_curve[i].equity = equity_curve[i].cash

(***************************************************************************)
(* C25.  max_drawdown is the maximum over the equity points j of              *)
(* max(equity[0..j]) - equity[j]; max_drawdown_pct is that decline as a       *)
(* percentage of the running peak at the first point where the maximum is     *)
(* attained (0 if that peak <= 0), which need not be the largest percentage   *)
(* decline of the curve.                                                     *)
(***************************************************************************)
EquityValues == [i \in 1..Len(equity_curve) |-> equity_curve[i].equity]

RunningPeak(v, j) == CHOOSE x \in {v[i] : i \in 1..j} : \A i \in 1..j : x >= v[i]

Decline(v, j) == RunningPeak(v, j) - v[j]

LargestDecline(v) ==
    CHOOSE d \in {Decline(v, j) : j \in 1..Len(v)} : \A j \in 1..Len(v) : d >= Decline(v, j)

FirstAt(v, d) == CHOOSE j \in 1..Len(v) :
                    Decline(v, j) = d /\ \A i \in 1..(j - 1) : Decline(v, i) # d

C25_MaxDrawdown ==
    (pc = "done" /\ equity_curve # <<>>) =>
        LET v == EquityValues
            m == Val(result).metrics
            d == LargestDecline(v)
            peak == RunningPeak(v, FirstAt(v, d))
        IN  /\ m.max_drawdown = d
            /\ IF d > 0 /\ peak > 0
               THEN m.max_drawdown_pct.num = d /\ m.max_drawdown_pct.den = peak
               ELSE m.max_drawdown_pct.num = 0

(* A finished run whose largest decline comes after a smaller one, and whose  *)
(* max_drawdown_pct is less than the percentage decline at another point      *)
(* (peak / decline there is below the reported peak / decline).               *)
C25_Witness ==
    /\ pc = "done" /\ equity_curve # <<>>
    /\ LET v == EquityValues
           m == Val(result).metrics
       IN  /\ m.max_drawdown > 0
           /\ FirstAt(v, m.max_drawdown) > 2
           /\ \E j \in 1..Len(v) :
                 /\ Decline(v, j) > 0
                 /\ RunningPeak(v, j) \div Decline(v, j)
                        < m.max_drawdown_pct.den \div m.max_drawdown_pct.num

(***************************************************************************)
(* C26.  profit_factor is null exactly when no closed position has pnl < 0,   *)
(* and otherwise is (sum of the positive pnls) / |sum of the negative pnls|   *)
(* (0 when there are losses and no wins); avg_win and avg_loss are the means  *)
(* of the positive and of the negative pnls, and 0 when there are none.       *)
(* (A quotient a / b of the metrics is the pair <<a, b>>.)                    *)
(***************************************************************************)
RECURSIVE PnlOver(_, _)
PnlOver(ps, S) ==
    IF S = {} THEN 0
    ELSE LET i == CHOOSE i \in S : TRUE
         IN  Val(ps[i].pnl) + PnlOver(ps, S \ {i})

C26_ProfitFactor ==
    pc = "done" =>
        LET ps == Val(result).positions
            m == Val(result).metrics
            gains == {i \in 1..Len(ps) : Val(ps[i].pnl) > 0}
            falls == {i \in 1..Len(ps) : Val(ps[i].pnl) < 0}
        IN  /\ (m.profit_factor = None) <=> (falls = {})
            /\ falls # {} =>
                   /\ Val(m.profit_factor) = <<PnlOver(ps, gains), -PnlOver(ps, falls)>>
                   /\ -PnlOver(ps, falls) > 0
                   /\ gains = {} => Val(m.profit_factor)[1] = 0
            /\ m.avg_win = IF gains = {} THEN <<0, 1>>
                           ELSE <<PnlOver(ps, gains), Cardinality(gains)>>
            /\ m.avg_loss = IF falls = {} THEN <<0, 1>>
                            ELSE <<PnlOver(ps, falls), Cardinality(falls)>>

(* A finished run with a winning and a losing trade. *)
C26_Witness ==
    /\ pc = "done" /\ Len(positions) = 2
    /\ \E i, j \in 1..2 : Val(positions[i].pnl) > 0 /\ Val(positions[j].pnl) < 0
    /\ Val(result).metrics.profit_factor # None

(***************************************************************************)
(* C27.  Cash is never negative: for every valid BacktestConfig and every     *)
(* sequence of signals with positive prices, capital >= 0 after every         *)
(* processed signal, and final_capital >= 0.                                  *)
(***************************************************************************)
PositivePrices == \A i \in 1..Len(signals) : signals[i].price > 0

C27_CashNonNegative ==
    (ValidConfig(config) /\ PositivePrices) =>
        /\ pc \in {"exec", "done", "raised"} => capital >= 0
        /\ \A i \in 1..Len(equity_curve) : equity_curve[i].cash >= 0
        /\ pc = "done" => Val(result).final_capital >= 0

ExitFields(p) == <<p.exit_date, p.exit_price, p.exit_value, p.pnl, p.pnl_pct>>

C29_BuyWithinBudget ==
    [][(AtSignal("buy") /\ current_position = None
            /\ Quantity(config, capital, signals[next_signal].price) > 0) =>
        /\ current_position' # None
        /\ (capital - capital') * Unit.size <= capital * config.position_size_pct
        /\ capital * config.position_size_pct <= capital * Unit.size]_vars

====
